---- MODULE Spec2Model ----
(***************************************************************************)
(* A model of pdfgen4vcman's page-rendering retry pipeline                 *)
(* (src/lib/generator.js): the proxy rotator getNextProxy, the session     *)
(* helpers newBrowserPage / cleanupBrowser, one render attempt             *)
(* generatePagePdf (navigation race, gated steps, error-text scan, PDF     *)
(* capture) and the retry orchestrator generatePdfs.                       *)
(*                                                                         *)
(* Four specifications share the variables:                                *)
(*   SpecProxy  getNextProxy applied repeatedly to drawn arguments         *)
(*   SpecPage   one generatePagePdf call on drawn options                  *)
(*   Spec       a whole generatePdfs run                                   *)
(*   SpecMain   a run of the CLI's main() (src/bin/pdfgen4vcman-cli.js)    *)
(***************************************************************************)
EXTENDS Integers, Sequences, FiniteSets, TLC

(***************************************************************************)
(* Bounds of the model.                                                    *)
(***************************************************************************)
\* longest proxy pool drawn for getNextProxy
MaxProxies == 3
\* error responses counted within one attempt (the counter saturates here)
MaxErrors == 2
\* attempts per URL that are followed when options.retries = 0 (unlimited)
MaxAttempts == 6
\* largest options.leniency drawn (the CLI counts -c flags without a limit)
MaxLeniency == 12

(***************************************************************************)
(* JavaScript values.                                                      *)
(***************************************************************************)
\* a numeric option that was never set; every comparison with it is false
UndefinedNumber == 0 - 1

\* the string standing for JS undefined where a string is expected
Undefined == "undefined"

\* JS `a > b` on numbers, false when b is undefined (NaN comparison)
GreaterThan(a, b) == b # UndefinedNumber /\ a > b

\* an array-valued option: either left undefined or an array
NoArray == [defined |-> FALSE, list |-> <<>>]

Array(s) == [defined |-> TRUE, list |-> s]

(***************************************************************************)
(* getNextProxy(currentIndex, proxies)          src/lib/generator.js:16-26 *)
(* JS arrays are 0-based: proxies[i] is list[i + 1]; reading an index      *)
(* outside the array yields undefined.                                     *)
(***************************************************************************)
ArrayAt(list, i) == IF i >= 0 /\ i < Len(list) THEN list[i + 1] ELSE Undefined

\* `ret` stays undefined unless the guard holds
NoProxy == [some |-> FALSE]

\* a plausible slip: the wrap-around compares with > instead of >=
getNextProxyNoWrap(currentIndex, proxies) ==
    IF proxies.defined /\ Len(proxies.list) > 0 /\ currentIndex < Len(proxies.list)
    THEN [some |-> TRUE,
          proxy |-> ArrayAt(proxies.list, currentIndex),
          index |-> IF currentIndex + 1 > Len(proxies.list) THEN 0 ELSE currentIndex + 1]
    ELSE NoProxy

getNextProxy(currentIndex, proxies) ==
    IF proxies.defined /\ Len(proxies.list) > 0 /\ currentIndex < Len(proxies.list)
    THEN [some |-> TRUE,
          proxy |-> ArrayAt(proxies.list, currentIndex),
          index |-> IF currentIndex + 1 >= Len(proxies.list) THEN 0 ELSE currentIndex + 1]
    ELSE NoProxy

(***************************************************************************)
(* State.                                                                  *)
(*   options, isToCPage, pageURLs   the arguments of generatePdfs          *)
(*   resourceLoadErrorCounter       the module-level counter (line 102)    *)
(*   page    the frame of the generatePagePdf call in progress             *)
(*   run     the frame of the generatePdfs call                            *)
(*   world   browsers, tabs, timers, the profile and the artifact folder   *)
(*   pdfDoc  the combined document (one entry per page)                    *)
(*   hist    what has happened so far (read by the properties only)        *)
(*   px      the arguments and results of the getNextProxy calls           *)
(*   main    the frame of the CLI's main() and the output file             *)
(***************************************************************************)
VARIABLES options, isToCPage, pageURLs, resourceLoadErrorCounter,
          page, run, world, pdfDoc, hist, px, main

vars == <<options, isToCPage, pageURLs, resourceLoadErrorCounter,
          page, run, world, pdfDoc, hist, px, main>>

inputVars == <<options, isToCPage, pageURLs>>

(***************************************************************************)
(* SpecProxy: getNextProxy on drawn arguments, each returned index fed     *)
(* back into the next call.                                                *)
(***************************************************************************)
ProxyNames == {"proxyA", "proxyB", "proxyC"}

RECURSIVE SeqsUpTo(_, _)
SeqsUpTo(S, n) ==
    IF n = 0 THEN {<<>>}
    ELSE LET shorter == SeqsUpTo(S, n - 1)
         IN  shorter \cup {Append(q, x) : q \in {r \in shorter : Len(r) = n - 1}, x \in S}

ProxyPools == {NoArray} \cup {Array(s) : s \in SeqsUpTo(ProxyNames, MaxProxies)}

ProxyIndexes == (0 - 2) .. (MaxProxies + 1)

PxIdle == [pool |-> NoArray, start |-> 0, index |-> 0, results |-> <<>>]

\* one call, logged with its argument; the returned index is the next argument,
\* and the index is kept when nothing is returned
ProxyCall ==
    /\ Len(px.results) < MaxProxies + 1
    /\ LET ret == getNextProxy(px.index, px.pool)
       IN  px' = [px EXCEPT !.results = Append(@, [currentIndex |-> px.index, ret |-> ret]),
                            !.index = IF ret.some THEN ret.index ELSE @]
    /\ UNCHANGED <<inputVars, resourceLoadErrorCounter, page, run, world, pdfDoc, hist,
                   main>>

(***************************************************************************)
(* The site.                                                               *)
(***************************************************************************)
\* the table-of-contents page and the content pages of the site
URLs == {"toc", "u1", "u2", "u3"}

\* the pages Chromium prints for each URL (every artifact has at least one)
PdfPages(url) == IF url = "u2" THEN 2 ELSE 1

\* the end of a link's hostname; "x1" is a link that leaves the site
DomainSuffixOf(url) == IF url = "x1" THEN ".example.org" ELSE ".volvocars.com"

(***************************************************************************)
(* generatePagePdf(pageUrl, pdfFilePath, browserPage, options, isToCPage)  *)
(*                                             src/lib/generator.js:394-899 *)
(***************************************************************************)
\* the browserPage value when none was handed over
NoPage == [defined |-> FALSE, tab |-> 0, browser |-> 0]

\* the steps in source order
StepOrder ==
    << "goto", "hyphenation", "scroll", "idleAfterScroll", "tocLinks", "tocModify",
       "relatedRemoval", "hyperlinks", "onetrust", "elementRemoval", "iframeRemoval",
       "idleAfterDom", "errorText", "pdf" >>

\* the steps whose failure signal is compared with options.leniency
GatedSteps ==
    { "goto", "scroll", "idleAfterScroll", "tocLinks", "tocModify", "relatedRemoval",
      "hyperlinks", "onetrust", "elementRemoval", "iframeRemoval", "idleAfterDom" }

\* the number each `options.leniency <= T` test compares with
Threshold(step) ==
    CASE step = "goto"            -> 11
      [] step = "scroll"          -> 10
      [] step = "idleAfterScroll" -> 9
      [] step = "tocLinks"        -> 8
      [] step = "tocModify"       -> 6
      [] step = "relatedRemoval"  -> 5
      [] step = "hyperlinks"      -> 4
      [] step = "onetrust"        -> 3
      [] step = "elementRemoval"  -> 2
      [] step = "iframeRemoval"   -> 1
      [] OTHER                    -> 0

\* a plausible slip: every gate written with < instead of <=
GateStrict(step) == options.leniency < Threshold(step)

\* the test in front of each `throw`; the last gate is written `== 0`
Gate(step) ==
    IF step = "idleAfterDom" THEN options.leniency = 0
    ELSE options.leniency <= Threshold(step)

\* whether the step is executed at all for this page and these options
Applies(step) ==
    CASE step = "hyphenation"    -> options.hyphenation # TRUE
      [] step = "tocLinks"       -> isToCPage = TRUE
      [] step = "tocModify"      -> isToCPage = TRUE
      [] step = "relatedRemoval" -> ~isToCPage /\ options.links # TRUE
      [] step = "errorText"      -> options.pageErrorTextPattern.defined
                                    /\ Len(options.pageErrorTextPattern.list) > 0
      [] OTHER                   -> TRUE

StepIndex(step) == CHOOSE i \in 1..Len(StepOrder) : StepOrder[i] = step

\* the next step that is executed after `step`, "returned" after the last one
NextStep(step) ==
    LET later == {i \in 1..Len(StepOrder) : i > StepIndex(step) /\ Applies(StepOrder[i])}
    IN  IF later = {} THEN "returned"
        ELSE StepOrder[CHOOSE i \in later : \A j \in later : i <= j]

\* a plausible slip: only the errors counted while the step ran are compared
catchResourceLoadErrorsDelta(errorsBefore, errorsAfter) ==
    GreaterThan(errorsAfter - errorsBefore, options.resourceHttpErrorAllowed)

\* the value catchResourceLoadErrors returns when the wrapped function returns
catchResourceLoadErrors(errorsBefore, errorsAfter) ==
    /\ errorsAfter - errorsBefore >= 0
    /\ GreaterThan(errorsAfter, options.resourceHttpErrorAllowed)

\* a plausible slip: the counter is not reset when an attempt begins
CounterAtCallKept(before) == before

\* line 400: `resourceLoadErrorCounter = 0` at the start of generatePagePdf
CounterAtCall(before) == 0

\* the frame before the call
PageIdle ==
    [ pos |-> "idle", pageUrl |-> Undefined, browserPage |-> NoPage,
      pageGotoError |-> FALSE, intervalActive |-> FALSE, settledBy |-> "none",
      counterAtSettle |-> 0, gotoValue |-> [kind |-> "none", status |-> 0], windowStop |-> FALSE,
      signalled |-> {}, abortStep |-> "none", abortReason |-> "none",
      errorTextFound |-> FALSE, timedOut |-> "none", pageURLs |-> <<>>,
      pdfCalled |-> FALSE, pageLoadError |-> FALSE, broughtToFront |-> FALSE,
      scroll |-> [ called |-> FALSE, maxScrolls |-> 0, scrollCounter |-> 0,
                   commands |-> 0, inFlight |-> FALSE, eventPending |-> FALSE,
                   listening |-> FALSE, resolved |-> FALSE, remainingAtResolve |-> 0,
                   scrollable |-> TRUE, scrollHeight |-> 0, clientHeight |-> 0,
                   scrollTop |-> 0, grown |-> 0 ] ]

\* the call: line 395-417. With no page object, `browserPage.goto` throws a
\* TypeError before the watcher is created, and the catch at line 892 returns.
PageCall(pageUrl, browserPage) ==
    IF browserPage.defined
    THEN [PageIdle EXCEPT !.pos = "goto", !.pageUrl = pageUrl, !.browserPage = browserPage,
                          !.intervalActive = TRUE]
    ELSE [PageIdle EXCEPT !.pos = "returned", !.pageUrl = pageUrl,
                          !.browserPage = browserPage, !.pageLoadError = TRUE,
                          !.abortStep = "goto", !.abortReason = "exception"]

\* a plausible slip: the catch block logs the error and forgets the flag
CatchLogsOnly(frame, step, reason) ==
    [frame EXCEPT !.pos = "returned", !.abortStep = step, !.abortReason = reason]

\* the catch block at line 892-895
Catch(frame, step, reason) ==
    [frame EXCEPT !.pos = "returned", !.pageLoadError = TRUE,
                  !.abortStep = step, !.abortReason = reason]

\* the steps that take a timeout option (options.timeout, options.pdfTimeout)
TimedSteps == {"goto", "idleAfterScroll", "idleAfterDom", "pdf"}

\* what the function of a step can do: return, throw, or throw a TimeoutError
\* when the step has a timeout
StepOutcomes(step) ==
    {"returns", "throws"} \cup (IF step \in TimedSteps THEN {"timeout"} ELSE {})

\* the frame with the expiry of the step's timeout noted
NoteTimeout(frame, step, outcome) ==
    IF outcome = "timeout" THEN [frame EXCEPT !.timedOut = step] ELSE frame

\* a plausible slip: a thrown error is turned into the step's failure signal
\* and meets the gate like a counted resource error
StepThrowsGated(frame, step) ==
    LET marked == [frame EXCEPT !.signalled = @ \cup {step}]
    IN  IF Gate(step) THEN Catch(marked, step, "gate")
        ELSE [marked EXCEPT !.pos = NextStep(step)]

\* line 383-389: catchResourceLoadErrors logs what the wrapped function threw
\* and throws it again; nothing stands between that throw and the catch block
StepThrows(frame, step) == Catch(frame, step, "exception")

\* line 463-467: the navigation result meets its gate
AfterGoto(frame) ==
    LET marked == IF frame.pageGotoError
                  THEN [frame EXCEPT !.signalled = @ \cup {"goto"}]
                  ELSE frame
    IN  IF Gate("goto") /\ frame.pageGotoError
        THEN Catch(marked, "goto", "gate")
        ELSE [marked EXCEPT !.pos = NextStep("goto")]

(***************************************************************************)
(* The response monitor attached by newBrowserPage, line 154-181.          *)
(* A response is its protocol, its status, its hostname and the path of    *)
(* its URL. A hostname and a domain suffix are sequences of labels and     *)
(* dots; a pattern of options.resourceHttpErrorUrlException is the path    *)
(* its regular expression matches.                                         *)
(***************************************************************************)
HttpStatuses == {200, 403, 404}

Hostnames ==
    { <<"www", ".", "volvocars", ".", "com">>, <<"volvocars", ".", "com">>,
      <<"cdn", ".", "example", ".", "org">> }

Paths == {"page", "predictions"}

Responses ==
    [ protocol : {"http:", "https:", "data:"}, status : HttpStatuses,
      hostname : Hostnames, path : Paths ]

\* String.prototype.endsWith
EndsWith(str, suffix) ==
    /\ Len(suffix) <= Len(str)
    /\ SubSeq(str, Len(str) - Len(suffix) + 1, Len(str)) = suffix

\* a plausible slip: the exception list is not consulted
CountsAsErrorNoException(response) ==
    /\ response.protocol \in {"http:", "https:"}
    /\ response.status \in options.resourceHttpError
    /\ \E x \in options.resourceHttpErrorDomainSuffix : EndsWith(response.hostname, x)

\* the path to `resourceLoadErrorCounter++` at line 174
CountsAsError(response) ==
    /\ response.protocol \in {"http:", "https:"}
    /\ response.status \in options.resourceHttpError
    /\ \E x \in options.resourceHttpErrorDomainSuffix : EndsWith(response.hostname, x)
    /\ ~\E x \in options.resourceHttpErrorUrlException : x = response.path

\* line 154-181: the listener is called with a response
OnResponse(response) ==
    IF CountsAsError(response)
    THEN /\ resourceLoadErrorCounter < MaxErrors
         /\ resourceLoadErrorCounter' = resourceLoadErrorCounter + 1
    ELSE UNCHANGED resourceLoadErrorCounter

\* a response arrives while goto() is pending
Response ==
    /\ page.pos = "goto"
    /\ \E response \in Responses : OnResponse(response)
    /\ UNCHANGED <<inputVars, page, run, world, pdfDoc, hist, px, main>>

\* the same, the response being noted
ObservedResponse ==
    /\ page.pos = "goto"
    /\ \E response \in Responses :
         /\ OnResponse(response)
         /\ hist' = [hist EXCEPT !.lastResponse = response]
    /\ UNCHANGED <<inputVars, page, run, world, pdfDoc, px, main>>

(***************************************************************************)
(* The navigation race, line 413-462.                                      *)
(***************************************************************************)
\* what goto() can settle with: a response, a nullish value, a value whose
\* status() throws, or a rejection (a network error, or a TimeoutError after
\* options.timeout)
GotoValues ==
    {[kind |-> "response", status |-> st] : st \in HttpStatuses}
    \cup {[kind |-> k, status |-> 0] : k \in {"nullish", "opaque", "rejected", "timeout"}}

\* the values with which goto() rejects: line 459-462 handles them
Rejections == {"rejected", "timeout"}

\* a plausible slip: the status of the top-level response is never looked at
GotoFailedIgnoringStatus(value) == value.kind # "response"

\* pageGotoError after goto() settled first (line 436-461)
GotoFailed(value) ==
    \/ value.kind \in {"nullish", "opaque", "rejected", "timeout"}
    \/ value.kind = "response" /\ value.status \in options.pageHttpError

\* a plausible slip: the watcher compares with >= instead of >
WatcherFiresEager == resourceLoadErrorCounter >= options.resourceHttpErrorAllowed

\* the test of the 100 ms watcher (line 419)
WatcherFires == GreaterThan(resourceLoadErrorCounter, options.resourceHttpErrorAllowed)

\* one tick of the watcher while goto() is pending (line 417-431): over the
\* limit it clears itself, wins the race and window.stop() is evaluated
WatcherTick ==
    /\ page.pos = "goto"
    /\ page.intervalActive
    /\ IF WatcherFires
       THEN page' = AfterGoto([page EXCEPT !.pageGotoError = TRUE,
                                           !.intervalActive = FALSE,
                                           !.settledBy = "watcher",
                                           !.counterAtSettle = resourceLoadErrorCounter,
                                           !.windowStop = TRUE])
       ELSE UNCHANGED page
    /\ UNCHANGED <<inputVars, resourceLoadErrorCounter, run, world, pdfDoc, hist, px, main>>

\* goto() settles first (line 432-462). A rejection goes to .catch(), which
\* does not clear the interval.
GotoSettles ==
    /\ page.pos = "goto"
    /\ \E value \in GotoValues :
         page' = AfterGoto([page EXCEPT !.pageGotoError = GotoFailed(value),
                                        !.intervalActive =
                                            IF value.kind \in Rejections THEN @ ELSE FALSE,
                                        !.timedOut =
                                            IF value.kind = "timeout" THEN "goto" ELSE @,
                                        !.settledBy = "goto",
                                        !.counterAtSettle = resourceLoadErrorCounter,
                                        !.gotoValue = value])
    /\ UNCHANGED <<inputVars, resourceLoadErrorCounter, run, world, pdfDoc, hist, px, main>>

\* a tick of an interval that line 459-462 left running: the callback of line
\* 417-425 still compares the module-level counter, and clears its interval
\* only once the counter is over the limit. Such an interval belongs to the
\* attempt in progress or to one that has returned (world.orphanTimers).
OrphanTick ==
    /\ \/ /\ page.pos \notin {"idle", "goto"}
          /\ page.intervalActive
          /\ page' = IF WatcherFires
                     THEN [page EXCEPT !.intervalActive = FALSE, !.pageGotoError = TRUE]
                     ELSE page
          /\ UNCHANGED world
       \/ /\ world.orphanTimers > 0
          /\ WatcherFires
          /\ world' = [world EXCEPT !.orphanTimers = @ - 1]
          /\ UNCHANGED page
    /\ UNCHANGED <<inputVars, resourceLoadErrorCounter, run, pdfDoc, hist, px, main>>

(***************************************************************************)
(* The steps after the navigation, line 469-888.                           *)
(***************************************************************************)
\* line 514-529: the anchors of the table of contents whose hostname ends
\* with one of options.urlDomainSuffix, in document order
RECURSIVE FilterLinks(_)
FilterLinks(anchors) ==
    IF anchors = <<>> THEN <<>>
    ELSE (IF DomainSuffixOf(Head(anchors)) \in options.urlDomainSuffix
          THEN <<Head(anchors)>> ELSE <<>>) \o FilterLinks(Tail(anchors))

\* what the wrapped function of a step leaves in retObj when it returns
StepReturns(frame, step) ==
    IF step = "tocLinks"
    THEN [frame EXCEPT !.pageURLs = FilterLinks(world.tocAnchors)]
    ELSE frame

\* a step wrapped in catchResourceLoadErrors and followed by its gate:
\* `counted` error responses arrive while the wrapped function runs, the
\* function throws (re-thrown at line 388, caught at line 892) or returns
GatedStep(step) ==
    /\ page.pos = step
    /\ \E counted \in 0..1, outcome \in StepOutcomes(step) :
         /\ resourceLoadErrorCounter + counted <= MaxErrors
         /\ resourceLoadErrorCounter' = resourceLoadErrorCounter + counted
         /\ page' =
              IF outcome # "returns"
              THEN StepThrows(NoteTimeout(page, step, outcome), step)
              ELSE IF catchResourceLoadErrors(resourceLoadErrorCounter,
                                              resourceLoadErrorCounter')
                   THEN LET marked == [StepReturns(page, step) EXCEPT
                                         !.signalled = @ \cup {step}]
                        IN  IF Gate(step) THEN Catch(marked, step, "gate")
                            ELSE [marked EXCEPT !.pos = NextStep(step)]
                   ELSE [StepReturns(page, step) EXCEPT !.pos = NextStep(step)]
    /\ UNCHANGED <<inputVars, run, world, pdfDoc, hist, px, main>>

\* line 469-485: addStyleTag(), not wrapped and not gated
DisableHyphenation ==
    /\ page.pos = "hyphenation"
    /\ \E counted \in 0..1, threw \in BOOLEAN :
         /\ resourceLoadErrorCounter + counted <= MaxErrors
         /\ resourceLoadErrorCounter' = resourceLoadErrorCounter + counted
         /\ page' = IF threw THEN Catch(page, "hyphenation", "exception")
                    ELSE [page EXCEPT !.pos = NextStep("hyphenation")]
    /\ UNCHANGED <<inputVars, run, world, pdfDoc, hist, px, main>>

\* line 490-496
ScrollToPageBottom == GatedStep("scroll")

\* line 498-507
WaitForIdleAfterScroll == GatedStep("idleAfterScroll")

\* line 511-537
CollectTocLinks == GatedStep("tocLinks")

\* line 539-585
ModifyToc == GatedStep("tocModify")

\* line 591-615
RemoveRelated == GatedStep("relatedRemoval")

\* line 617-639
ConvertHyperlinks == GatedStep("hyperlinks")

\* line 651-689
RejectConsent == GatedStep("onetrust")

\* line 691-797
RemovePageElements == GatedStep("elementRemoval")

\* line 800-818
RemoveIframes == GatedStep("iframeRemoval")

\* line 827-839: bringToFront() is not awaited, then the final idle wait
WaitForIdleAfterDom == GatedStep("idleAfterDom")

\* a plausible slip: the scan's throw is gated like the step before it
AfterScanGated(frame) ==
    IF frame.errorTextFound /\ options.leniency = 0
    THEN Catch(frame, "errorText", "errorText")
    ELSE [frame EXCEPT !.pos = NextStep("errorText")]

\* line 846-849: a match throws, whatever options.leniency is
AfterScan(frame) ==
    IF frame.errorTextFound
    THEN Catch(frame, "errorText", "errorText")
    ELSE [frame EXCEPT !.pos = NextStep("errorText")]

\* line 841-851: the scan finds a pattern, finds none, or the query throws
ErrorTextScan ==
    /\ page.pos = "errorText"
    /\ \E outcome \in {"found", "absent", "throws"} :
         page' = IF outcome = "throws"
                 THEN Catch(page, "errorText", "exception")
                 ELSE AfterScan([page EXCEPT !.errorTextFound = (outcome = "found")])
    /\ UNCHANGED <<inputVars, resourceLoadErrorCounter, run, world, pdfDoc, hist, px, main>>

\* line 853-891: page.pdf() writes the artifact or throws, also on expiry of
\* options.pdfTimeout (the font diagnostic of line 877-885 ends in the same
\* throw, or in its own)
RenderPdf ==
    /\ page.pos = "pdf"
    /\ \E outcome \in StepOutcomes("pdf") :
         IF outcome = "returns"
         THEN /\ page' = [page EXCEPT !.pos = "returned", !.pdfCalled = TRUE]
              /\ world' = [world EXCEPT !.pdfDir[page.pageUrl] = "new"]
         ELSE /\ page' = Catch(NoteTimeout([page EXCEPT !.pdfCalled = TRUE], "pdf", outcome),
                               "pdf", "exception")
              /\ UNCHANGED world
    /\ UNCHANGED <<inputVars, resourceLoadErrorCounter, run, pdfDoc, hist, px, main>>

\* every step of one attempt
PageStep ==
    \/ Response
    \/ WatcherTick
    \/ GotoSettles
    \/ OrphanTick
    \/ DisableHyphenation
    \/ ScrollToPageBottom
    \/ WaitForIdleAfterScroll
    \/ CollectTocLinks
    \/ ModifyToc
    \/ RemoveRelated
    \/ ConvertHyperlinks
    \/ RejectConsent
    \/ RemovePageElements
    \/ RemoveIframes
    \/ WaitForIdleAfterDom
    \/ ErrorTextScan
    \/ RenderPdf

(***************************************************************************)
(* Inputs.                                                                 *)
(***************************************************************************)
\* the options the CLI builds when no flag is given (pdfgen4vcman-cli.js:39-72
\* and 425-468), the status sets cut down to HttpStatuses; the CLI never sets
\* resourceHttpErrorAllowed, keepBrowser or pageErrorTextPattern. Ink
\* coverage is counted in thousandths: DEFAULT_PDF_CLEANUP_THRESHOLD = 0.008
DefaultOptions ==
    [ retries |-> 5, leniency |-> 0, force |-> FALSE, keepBrowser |-> FALSE,
      proxy |-> Array(<<>>), waitTime |-> 0, newBrowserPerUrls |-> 100,
      resourceHttpErrorAllowed |-> UndefinedNumber,
      resourceHttpError |-> {403}, pageHttpError |-> {403, 404},
      hyphenation |-> FALSE, links |-> FALSE, pageErrorTextPattern |-> NoArray,
      urlDomainSuffix |-> {".volvocars.com"},
      toc |-> TRUE, tocLimit |-> 0, output |-> "manual.pdf",
      pdfCleanup |-> TRUE, pdfCleanupThreshold |-> 8,
      resourceHttpErrorDomainSuffix |-> {<<".", "volvocars", ".", "com">>},
      resourceHttpErrorUrlException |-> {"predictions"},
      userAgent |-> [text |-> "", version |-> <<>>],
      defaultUserAgent |-> "Mozilla/5.0 {VERSION} Safari/537.36" ]

\* the frames and the environment before anything ran
RunIdle ==
    [ pos |-> "idle", pageURLIdx |-> 0, pdfGenCounter |-> 1, pageLoadErrorCounter |-> 0,
      pageGenerationCounter |-> 0, rejectInProgress |-> FALSE,
      browserPage |-> NoPage, proxyIndex |-> 0, retURLs |-> NoArray ]

WorldEmpty ==
    [ launched |-> 0, openBrowsers |-> {}, tabsCreated |-> 0, openTabs |-> {},
      profileGen |-> 0, cleanups |-> 0, launchProxies |-> <<>>,
      orphanTimers |-> 0, tocAnchors |-> <<"u1", "u2">>,
      pdfDir |-> [u \in URLs |-> "none"],
      faults |-> {}, pendingProtocolErrors |-> 0,
      teardown |-> [called |-> FALSE, browser |-> 0, repeated |-> FALSE,
                    ran |-> {}, failed |-> {}, threw |-> FALSE,
                    pos |-> "none", errorCount |-> 0, waited |-> FALSE] ]

\* main() before it is called: nothing is written and no exit code is set
MainIdle ==
    [ pos |-> "idle", url |-> "toc", linux |-> TRUE,
      exitCode |-> 0, pageUrls |-> NoArray, pdfGenerationResult |-> TRUE,
      rejected |-> {}, outputFile |-> [writes |-> 0, pages |-> <<>>], saved |-> <<>>,
      spawned |-> FALSE,
      spawnResult |-> [status |-> 0, error |-> "none", stdout |-> <<>>, stderr |-> FALSE],
      removedPageCount |-> 0, removePageThrew |-> FALSE,
      temporary |-> {"userDirectory", "pdfDirectory"} ]

HistIdle ==
    [ attempts |-> <<>>, otherFailure |-> FALSE, retryResets |-> 0,
      lastFailed |-> NoPage, lastFailedProfile |-> 0,
      sessionSuccesses |-> 0, lastRecycle |-> "none", loadsAtRecycle |-> 0,
      successesAtRecycle |-> 0, sleptSeconds |-> 0,
      staleCounted |-> 0, thrown |-> "none",
      served |-> [browser |-> 0, count |-> 0],
      session |-> [called |-> FALSE, startNew |-> FALSE, isLastURL |-> FALSE,
                   currentPage |-> NoPage, launchedBefore |-> 0, threw |-> FALSE],
      lastResponse |-> [protocol |-> "none", status |-> 0, hostname |-> <<>>,
                        path |-> "none"] ]

(***************************************************************************)
(* Sessions: newBrowserPage and cleanupBrowser, line 105-275. Both are     *)
(* written as functions of the environment they change.                    *)
(***************************************************************************)
\* the sub-steps of a teardown in the order of the code: line 228, 240, 253, 265
TeardownSteps == <<"closePage", "closeBrowser", "rm", "mkdir">>

\* what a sub-step that succeeds does to the environment: the tab is closed;
\* the browser is closed with every tab it has; the profile directory is
\* deleted, so the next launch starts on a new profile; it is created again
StepEffect(w, step, browserPage) ==
    CASE step = "closePage" ->
           [w EXCEPT !.openTabs = @ \ {browserPage}]
      [] step = "closeBrowser" ->
           [w EXCEPT !.openTabs = {t \in @ : t.browser # browserPage.browser},
                     !.openBrowsers = @ \ {browserPage.browser}]
      [] step = "rm" ->
           [w EXCEPT !.profileGen = @ + 1]
      [] OTHER -> w

\* a plausible slip: a failing sub-step is not caught and ends the teardown
TeardownStepPropagates(w, step, browserPage) ==
    IF w.teardown.threw THEN w
    ELSE IF step \in w.faults
    THEN [w EXCEPT !.teardown.ran = @ \cup {step},
                   !.teardown.failed = @ \cup {step},
                   !.teardown.threw = TRUE]
    ELSE [StepEffect(w, step, browserPage) EXCEPT !.teardown.ran = @ \cup {step}]

\* one sub-step, line 226-274: `await f().then(ok, err)` inside try/catch; a
\* rejection or an exception is logged and the function goes on
TeardownStep(w, step, browserPage) ==
    IF w.teardown.threw THEN w
    ELSE IF step \in w.faults
    THEN [w EXCEPT !.teardown.ran = @ \cup {step},
                   !.teardown.failed = @ \cup {step}]
    ELSE [StepEffect(w, step, browserPage) EXCEPT !.teardown.ran = @ \cup {step}]

\* the environments a sub-step leaves when it is made in one of the given ones
AfterStep(environments, step, browserPage) ==
    { TeardownStep(w, step, browserPage) : w \in environments }

\* line 193-274: the four sub-steps on the browser of the tab; the record of
\* the call tells whether the same browser was torn down by the call before
Teardown(w, browserPage) ==
    LET begun == [w EXCEPT !.cleanups = @ + 1,
                           !.teardown =
                               [@ EXCEPT !.called = TRUE,
                                         !.browser = browserPage.browser,
                                         !.repeated = w.teardown.called
                                             /\ w.teardown.browser = browserPage.browser,
                                         !.ran = {}, !.failed = {}, !.threw = FALSE]]
        closedPage    == AfterStep({begun}, TeardownSteps[1], browserPage)
        closedBrowser == AfterStep(closedPage, TeardownSteps[2], browserPage)
        removed       == AfterStep(closedBrowser, TeardownSteps[3], browserPage)
    IN  CHOOSE made \in AfterStep(removed, TeardownSteps[4], browserPage) : TRUE

\* a plausible slip: the early return forgets to look at options.keepBrowser
cleanupBrowserSkipsLast(w, browserPage, isLastURL) ==
    IF isLastURL THEN w ELSE Teardown(w, browserPage)

\* cleanupBrowser, line 187-275: skipped for the last URL under keepBrowser;
\* otherwise the tab and its browser are closed (with every tab of that
\* browser) and the profile directory is deleted and created again
cleanupBrowser(w, browserPage, isLastURL) ==
    IF options.keepBrowser /\ isLastURL THEN w ELSE Teardown(w, browserPage)

\* line 194: `browserPage.browser()` needs a page object unless the call is skipped
CleanupCallable(browserPage, isLastURL) ==
    (options.keepBrowser /\ isLastURL) \/ browserPage.defined

\* the proxy a launch passes to the browser, line 114-118
LaunchProxy(proxyIndex) ==
    LET proxyObj == getNextProxy(proxyIndex, options.proxy)
    IN  IF proxyObj.some /\ proxyObj.proxy # Undefined /\ proxyObj.proxy # ""
        THEN [applied |-> TRUE, proxy |-> proxyObj.proxy, index |-> proxyObj.index]
        ELSE [applied |-> FALSE, proxy |-> Undefined, index |-> proxyIndex]

\* line 131: browser.version(), the product and the numbers of the version
BrowserVersion == <<"Chrome", 131, 0, 6778, 85>>

\* line 134: the numbers after the first are replaced by 0.0.0
AnonVersion(version) == <<version[1], version[2], 0, 0, 0>>

\* a plausible slip: the user agent is built at every launch
UserAgentAfterAlways(startNew, isLastURL) ==
    IF (options.keepBrowser /\ isLastURL) \/ ~startNew THEN options.userAgent
    ELSE [text |-> options.defaultUserAgent, version |-> AnonVersion(BrowserVersion)]

\* line 133-136: a launch builds options.userAgent when it is unset or empty
UserAgentAfter(startNew, isLastURL) ==
    IF (options.keepBrowser /\ isLastURL) \/ ~startNew THEN options.userAgent
    ELSE IF options.userAgent.text = ""
    THEN [text |-> options.defaultUserAgent, version |-> AnonVersion(BrowserVersion)]
    ELSE options.userAgent

\* the options object after a newBrowserPage call
OptionsAfter(startNew, isLastURL) ==
    [options EXCEPT !.userAgent = UserAgentAfter(startNew, isLastURL)]

\* a plausible slip: the tab in use is not closed when a new one is opened
TabClosedNever(w, tabs, currentPage) == tabs

\* line 140-146: currentPage.close(), whose failure is logged and swallowed
TabClosed(w, tabs, currentPage) ==
    IF "closePage" \in w.faults THEN tabs ELSE tabs \ {currentPage}

\* newBrowserPage, line 105-184: returns the environment, the tab and the cursor
newBrowserPage(w, startNew, proxyIndex, isLastURL, currentPage) ==
    IF options.keepBrowser /\ isLastURL
    THEN [world |-> w, browserPage |-> currentPage, proxyIndex |-> proxyIndex]
    ELSE IF startNew
    THEN LET used == LaunchProxy(proxyIndex)
             tab  == [defined |-> TRUE, tab |-> w.tabsCreated + 1,
                      browser |-> w.launched + 1]
         IN  [ world |-> [w EXCEPT !.launched = @ + 1,
                                   !.openBrowsers = @ \cup {w.launched + 1},
                                   !.tabsCreated = @ + 1,
                                   !.openTabs = @ \cup {tab},
                                   !.launchProxies = Append(@, used.proxy)],
               browserPage |-> tab,
               proxyIndex |-> used.index ]
    ELSE LET tab == [defined |-> TRUE, tab |-> w.tabsCreated + 1,
                     browser |-> currentPage.browser]
         IN  [ world |-> [w EXCEPT !.tabsCreated = @ + 1,
                                   !.openTabs = TabClosed(w, @, currentPage) \cup {tab}],
               browserPage |-> tab,
               proxyIndex |-> proxyIndex ]

(***************************************************************************)
(* SpecPage: one generatePagePdf call on drawn options, for a live tab or   *)
(* for no tab at all, whatever the counter held before the call and        *)
(* whether or not an earlier call left its interval running.               *)
(***************************************************************************)
PageOptions ==
    { [DefaultOptions EXCEPT !.leniency = l, !.resourceHttpErrorAllowed = a,
                             !.hyphenation = h, !.links = k,
                             !.pageErrorTextPattern = t] :
        l \in 0..MaxLeniency, a \in {UndefinedNumber, 0, 1}, h \in BOOLEAN,
        k \in BOOLEAN, t \in {NoArray, Array(<<"access denied">>)} }

LivePage == [defined |-> TRUE, tab |-> 1, browser |-> 1]

InitPage ==
    /\ options \in PageOptions
    /\ isToCPage \in BOOLEAN
    /\ pageURLs = <<"u1">>
    /\ resourceLoadErrorCounter \in 0..MaxErrors
    /\ page = PageIdle
    /\ run = RunIdle
    /\ \E timers \in 0..1 :
         world = [WorldEmpty EXCEPT !.launched = 1, !.openBrowsers = {1},
                                    !.tabsCreated = 1, !.openTabs = {LivePage},
                                    !.launchProxies = <<Undefined>>,
                                    !.orphanTimers = timers]
    /\ pdfDoc = <<>>
    /\ hist = HistIdle
    /\ px = PxIdle
    /\ main = MainIdle

\* the call itself: line 395-400 reset the counter, then the race starts
CallGeneratePagePdf ==
    /\ page.pos = "idle"
    /\ \E browserPage \in {LivePage, NoPage} :
         page' = PageCall(pageURLs[1], browserPage)
    /\ resourceLoadErrorCounter' = CounterAtCall(resourceLoadErrorCounter)
    /\ UNCHANGED <<inputVars, run, world, pdfDoc, hist, px, main>>

NextPage == CallGeneratePagePdf \/ PageStep

SpecPage == InitPage /\ [][NextPage]_vars

(***************************************************************************)
(* SpecScroll: one scrollToPageBottom call, line 44-83. Lengths are in     *)
(* thirds of the scroll distance. The document is higher than the window   *)
(* or as high; it may refuse to scroll (overflow hidden) and may grow      *)
(* while it is scrolled (content loaded on demand). A scroll command that  *)
(* moves the document ends in a scrollend event; after one that moves      *)
(* nothing the browser may fire the event or not.                          *)
(***************************************************************************)
MaxScrolls == 3

MaxScrollHeight == 12

MaxGrowth == 1

\* line 48: `const distance = 20000`
Distance == 3

\* line 52
Remaining(scroll) ==
    LET d == scroll.scrollHeight - scroll.clientHeight - scroll.scrollTop
    IN  IF d < 0 THEN 0 - d ELSE d

\* line 45-47, 72-77: the listener is added and the first command issued
CallScrollToPageBottom ==
    /\ ~page.scroll.called
    /\ page' = [page EXCEPT !.scroll.called = TRUE,
                            !.scroll.scrollCounter = 1,
                            !.scroll.listening = TRUE,
                            !.scroll.commands = 1,
                            !.scroll.inFlight = TRUE]
    /\ UNCHANGED <<inputVars, resourceLoadErrorCounter, run, world, pdfDoc, hist, px, main>>

\* window.scrollBy({top: distance, behavior: "smooth"}) has run its course
ScrollSettles ==
    /\ page.scroll.inFlight
    /\ LET scroll == page.scroll
           bottom == scroll.scrollHeight - scroll.clientHeight
           target == IF ~scroll.scrollable THEN scroll.scrollTop
                     ELSE IF scroll.scrollTop + Distance > bottom THEN bottom
                     ELSE scroll.scrollTop + Distance
           moved  == target # scroll.scrollTop
       IN  \E fired \in (IF moved THEN {TRUE} ELSE BOOLEAN),
              growth \in (IF moved /\ scroll.grown < MaxGrowth THEN {0, Distance} ELSE {0}) :
             page' = [page EXCEPT !.scroll.inFlight = FALSE,
                                  !.scroll.scrollTop = target,
                                  !.scroll.eventPending = fired,
                                  !.scroll.scrollHeight = @ + growth,
                                  !.scroll.grown = @ + (IF growth > 0 THEN 1 ELSE 0)]
    /\ UNCHANGED <<inputVars, resourceLoadErrorCounter, run, world, pdfDoc, hist, px, main>>

\* a plausible slip: `<=` for `<`, one command more than maxScrolls
scrollendHandlerOneMore(scroll) ==
    IF Remaining(scroll) > 1 /\ scroll.scrollCounter <= scroll.maxScrolls
    THEN [scroll EXCEPT !.eventPending = FALSE, !.scrollCounter = @ + 1,
                        !.commands = @ + 1, !.inFlight = TRUE]
    ELSE [scroll EXCEPT !.eventPending = FALSE, !.listening = FALSE,
                        !.resolved = TRUE, !.remainingAtResolve = Remaining(scroll)]

\* line 51-71
scrollendHandler(scroll) ==
    IF Remaining(scroll) > 1 /\ scroll.scrollCounter < scroll.maxScrolls
    THEN [scroll EXCEPT !.eventPending = FALSE, !.scrollCounter = @ + 1,
                        !.commands = @ + 1, !.inFlight = TRUE]
    ELSE [scroll EXCEPT !.eventPending = FALSE, !.listening = FALSE,
                        !.resolved = TRUE, !.remainingAtResolve = Remaining(scroll)]

\* the scrollend event is delivered to the listener
Scrollend ==
    /\ page.scroll.eventPending
    /\ page.scroll.listening
    /\ page' = [page EXCEPT !.scroll = scrollendHandler(@)]
    /\ UNCHANGED <<inputVars, resourceLoadErrorCounter, run, world, pdfDoc, hist, px, main>>

InitScroll ==
    /\ options = DefaultOptions
    /\ isToCPage = FALSE
    /\ pageURLs = <<"u1">>
    /\ resourceLoadErrorCounter = 0
    /\ \E maxScrolls \in 1..MaxScrolls, scrollable \in BOOLEAN,
          clientHeight \in {2, 4}, scrollHeight \in 2..MaxScrollHeight :
         /\ scrollHeight >= clientHeight
         /\ page = [PageIdle EXCEPT !.scroll.maxScrolls = maxScrolls,
                                    !.scroll.scrollable = scrollable,
                                    !.scroll.clientHeight = clientHeight,
                                    !.scroll.scrollHeight = scrollHeight]
    /\ run = RunIdle
    /\ world = WorldEmpty
    /\ pdfDoc = <<>>
    /\ hist = HistIdle
    /\ px = PxIdle
    /\ main = MainIdle

\* the browser's event loop runs every task that is due
SpecScroll ==
    /\ InitScroll
    /\ [][CallScrollToPageBottom \/ ScrollSettles \/ Scrollend]_vars
    /\ WF_vars(CallScrollToPageBottom)
    /\ WF_vars(ScrollSettles)
    /\ WF_vars(Scrollend)

(***************************************************************************)
(* SpecOrder: one generatePagePdf call with the promise of the             *)
(* bringToFront() call of line 828 followed to its settling. The call is   *)
(* made without `await` in front of the last wait for network idle, so its *)
(* promise settles at any later moment.                                    *)
(***************************************************************************)
\* line 828: the promise of bringToFront() settles; the call has been made
\* once the last wait for network idle was begun
BringToFrontSettles ==
    /\ \/ page.pos \in {"errorText", "pdf"}
       \/ /\ page.pos = "returned"
          /\ page.browserPage.defined
          /\ page.abortStep \in {"none", "idleAfterDom", "errorText", "pdf"}
    /\ ~page.broughtToFront
    /\ page' = [page EXCEPT !.broughtToFront = TRUE]
    /\ UNCHANGED <<inputVars, resourceLoadErrorCounter, run, world, pdfDoc, hist, px, main>>

InitOrder ==
    /\ InitPage
    /\ options.leniency \in {0, MaxLeniency}
    /\ options.resourceHttpErrorAllowed = 1
    /\ resourceLoadErrorCounter = 0

SpecOrder == InitOrder /\ [][NextPage \/ BringToFrontSettles]_vars

(***************************************************************************)
(* SpecProxy.                                                              *)
(***************************************************************************)
InitProxy ==
    /\ options = DefaultOptions
    /\ isToCPage = FALSE
    /\ pageURLs = <<>>
    /\ resourceLoadErrorCounter = 0
    /\ page = PageIdle
    /\ run = RunIdle
    /\ world = WorldEmpty
    /\ pdfDoc = <<>>
    /\ hist = HistIdle
    /\ \E pool \in ProxyPools, index \in ProxyIndexes :
         px = [pool |-> pool, start |-> index, index |-> index, results |-> <<>>]
    /\ main = MainIdle

NextProxy == ProxyCall

SpecProxy == InitProxy /\ [][NextProxy]_vars

(***************************************************************************)
(* SpecMonitor: the response listener of a tab, called with drawn          *)
(* responses under drawn status, suffix and exception lists.               *)
(***************************************************************************)
MonitorOptions ==
    { [DefaultOptions EXCEPT !.resourceHttpError = e,
                             !.resourceHttpErrorDomainSuffix = d,
                             !.resourceHttpErrorUrlException = x] :
        e \in {{403}, {403, 404}},
        d \in {{<<".", "volvocars", ".", "com">>},
               {<<".", "volvocars", ".", "com">>, <<".", "org">>}},
        x \in {{}, {"predictions"}} }

InitMonitor ==
    /\ options \in MonitorOptions
    /\ isToCPage = FALSE
    /\ pageURLs = <<"u1">>
    /\ resourceLoadErrorCounter = 0
    /\ page = PageCall("u1", LivePage)
    /\ run = RunIdle
    /\ world = [WorldEmpty EXCEPT !.launched = 1, !.openBrowsers = {1},
                                  !.tabsCreated = 1, !.openTabs = {LivePage},
                                  !.launchProxies = <<Undefined>>]
    /\ pdfDoc = <<>>
    /\ hist = HistIdle
    /\ px = PxIdle
    /\ main = MainIdle

NextMonitor == ObservedResponse

SpecMonitor == InitMonitor /\ [][NextMonitor]_vars

(***************************************************************************)
(* generatePdfs(puppeteer, pageURLs, userDir, pdfDir, pdfDoc, options,     *)
(* isToCPage)                                  src/lib/generator.js:280-373 *)
(***************************************************************************)
\* the URL of the current iteration (pageURLIdx is 0-based as in the source)
PageUrl == pageURLs[run.pageURLIdx + 1]

\* line 291-293
IsLastURL ==
    run.pageURLIdx = (IF Len(pageURLs) > 0 THEN Len(pageURLs) - 1 ELSE 0)

\* line 296-302: access() finds the artifact named after the URL's hash
PdfExists == world.pdfDir[PageUrl] # "none"

\* a plausible slip: the force option is not consulted
ReusesCachedIgnoringForce == PdfExists /\ ~isToCPage

\* line 306
ReusesCached == PdfExists /\ ~isToCPage /\ options.force # TRUE

\* the generatePagePdf calls made so far in this run
RECURSIVE SumSeq(_)
SumSeq(q) == IF q = <<>> THEN 0 ELSE Head(q) + SumSeq(Tail(q))

\* a plausible slip: the retry test is written with <=
MayRetryOneMore == options.retries = 0 \/ run.pdfGenCounter <= options.retries

\* line 315
MayRetry == options.retries = 0 \/ run.pdfGenCounter < options.retries

\* a plausible slip: the pool counts as used up one failure later
WaitsBeforeRetryLate(pageLoadErrorCounter) ==
    /\ \/ options.proxy.defined
          /\ (Len(options.proxy.list) = 0
              \/ pageLoadErrorCounter > Len(options.proxy.list))
       \/ ~options.proxy.defined
    /\ options.waitTime > 0

\* line 327
WaitsBeforeRetry(pageLoadErrorCounter) ==
    /\ \/ options.proxy.defined
          /\ (Len(options.proxy.list) = 0
              \/ pageLoadErrorCounter >= Len(options.proxy.list))
       \/ ~options.proxy.defined
    /\ options.waitTime > 0

\* a plausible slip: the attempts at this URL are tested, not those of the run
NewBrowserIsNeededPerUrl(pageGenerationCounter) ==
    /\ options.newBrowserPerUrls > 0
    /\ run.pdfGenCounter % options.newBrowserPerUrls = 0

\* a plausible slip: the test runs before the counter's increment is seen
NewBrowserIsNeededStale(pageGenerationCounter) ==
    /\ options.newBrowserPerUrls > 0
    /\ (pageGenerationCounter - 1) % options.newBrowserPerUrls = 0

\* line 341
NewBrowserIsNeeded(pageGenerationCounter) ==
    /\ options.newBrowserPerUrls > 0
    /\ pageGenerationCounter % options.newBrowserPerUrls = 0

\* a plausible slip: the document is replaced by the artifact's pages
appendPdfReplaces(destDocument, url) ==
    [n \in 1..PdfPages(url) |-> [url |-> url, version |-> world.pdfDir[url], no |-> n]]

\* a plausible slip: the artifact's pages are put in front
appendPdfInFront(destDocument, url) ==
    [n \in 1..PdfPages(url) |-> [url |-> url, version |-> world.pdfDir[url], no |-> n]]
    \o destDocument

\* appendPdf, line 28-37: the artifact's pages go to the end of the document
appendPdf(destDocument, url) ==
    destDocument \o [n \in 1..PdfPages(url) |->
                        [url |-> url, version |-> world.pdfDir[url], no |-> n]]

\* generatePagePdf has returned: an interval it left running outlives its frame
FrameDropped(w) ==
    [w EXCEPT !.orphanTimers = @ + (IF page.intervalActive THEN 1 ELSE 0)]

\* `break` of the inner loop followed by the outer loop's increment
NextUrl(frame) ==
    [frame EXCEPT !.pos = "loop", !.pageURLIdx = @ + 1, !.pdfGenCounter = 1]

\* line 281-288: the first session
StartRun ==
    /\ run.pos = "idle"
    /\ LET session == newBrowserPage(world, TRUE, 0, FALSE, NoPage)
       IN  /\ world' = session.world
           /\ run' = [run EXCEPT !.pos = "loop",
                                 !.browserPage = session.browserPage,
                                 !.proxyIndex = session.proxyIndex]
    /\ options' = OptionsAfter(TRUE, FALSE)
    /\ UNCHANGED <<isToCPage, pageURLs, resourceLoadErrorCounter, page, pdfDoc, hist, px, main>>

\* line 306-309: the artifact is there and is reused
ReuseCached ==
    /\ run.pos = "loop"
    /\ run.pageURLIdx < Len(pageURLs)
    /\ ReusesCached
    /\ pdfDoc' = appendPdf(pdfDoc, PageUrl)
    /\ run' = NextUrl(run)
    /\ UNCHANGED <<inputVars, resourceLoadErrorCounter, page, world, hist, px, main>>

\* the attempts made in a row on one browser instance, this one included
ServedAfter(served, browserPage) ==
    IF ~browserPage.defined THEN served
    ELSE IF browserPage.browser = served.browser
         THEN [served EXCEPT !.count = @ + 1]
         ELSE [browser |-> browserPage.browser, count |-> 1]

\* line 311-312: one more attempt is started
StartAttempt ==
    /\ run.pos = "loop"
    /\ run.pageURLIdx < Len(pageURLs)
    /\ ~ReusesCached
    /\ run.pdfGenCounter <= MaxAttempts
    /\ page' = PageCall(PageUrl, run.browserPage)
    /\ resourceLoadErrorCounter' = CounterAtCall(resourceLoadErrorCounter)
    /\ run' = [run EXCEPT !.pos = "attempt"]
    /\ hist' = [hist EXCEPT !.attempts[run.pageURLIdx + 1] = @ + 1,
                             !.staleCounted = 0,
                             !.served = ServedAfter(@, run.browserPage)]
    /\ UNCHANGED <<inputVars, world, pdfDoc, px, main>>

\* line 313-335: the attempt failed and is retried on a new session
RetryAfterFailure ==
    /\ run.pos = "attempt"
    /\ page.pos = "returned"
    /\ page.pageLoadError
    /\ MayRetry
    /\ CleanupCallable(run.browserPage, IsLastURL)
    /\ LET counted == run.pageLoadErrorCounter + 1
           cleaned == cleanupBrowser(FrameDropped(world), run.browserPage, IsLastURL)
           session == newBrowserPage(cleaned, TRUE, run.proxyIndex, IsLastURL, NoPage)
       IN  /\ world' = session.world
           /\ run' = [run EXCEPT !.pos = "loop",
                                 !.pageGenerationCounter = @ + 1,
                                 !.pageLoadErrorCounter =
                                     IF WaitsBeforeRetry(counted) THEN 0 ELSE counted,
                                 !.browserPage = session.browserPage,
                                 !.proxyIndex = session.proxyIndex,
                                 !.pdfGenCounter = @ + 1]
           /\ hist' = [hist EXCEPT
                         !.otherFailure =
                             @ \/ ~GreaterThan(resourceLoadErrorCounter,
                                               options.resourceHttpErrorAllowed),
                         !.retryResets = @ + (cleaned.cleanups - world.cleanups),
                         !.sleptSeconds =
                             @ + (IF WaitsBeforeRetry(counted) THEN options.waitTime ELSE 0),
                         !.sessionSuccesses =
                             IF session.world.launched > world.launched THEN 0 ELSE @,
                         !.lastFailed = page.browserPage,
                         !.lastFailedProfile = world.profileGen]
    /\ page' = PageIdle
    /\ options' = OptionsAfter(TRUE, IsLastURL)
    /\ UNCHANGED <<isToCPage, pageURLs, resourceLoadErrorCounter, pdfDoc, px, main>>

\* line 313-323: the attempt failed and no retry is left
GiveUp ==
    /\ run.pos = "attempt"
    /\ page.pos = "returned"
    /\ page.pageLoadError
    /\ ~MayRetry
    /\ CleanupCallable(run.browserPage, IsLastURL)
    /\ world' = cleanupBrowser(FrameDropped(world), run.browserPage, IsLastURL)
    /\ run' = [run EXCEPT !.pos = "rejected",
                          !.pageGenerationCounter = @ + 1,
                          !.rejectInProgress = TRUE]
    /\ page' = PageIdle
    /\ UNCHANGED <<inputVars, resourceLoadErrorCounter, pdfDoc, hist, px, main>>

\* line 313 and 336-351: the attempt succeeded
AfterSuccess ==
    /\ run.pos = "attempt"
    /\ page.pos = "returned"
    /\ ~page.pageLoadError
    /\ LET generated == run.pageGenerationCounter + 1
           needed    == NewBrowserIsNeeded(generated)
           cleaned   == IF needed
                        THEN cleanupBrowser(FrameDropped(world), run.browserPage, IsLastURL)
                        ELSE FrameDropped(world)
           session   == newBrowserPage(cleaned, needed, run.proxyIndex, IsLastURL,
                                       run.browserPage)
       IN  /\ world' = session.world
           /\ run' = NextUrl([run EXCEPT !.pageGenerationCounter = generated,
                                         !.retURLs = Array(page.pageURLs),
                                         !.pageLoadErrorCounter = 0,
                                         !.browserPage = session.browserPage,
                                         !.proxyIndex = session.proxyIndex])
           /\ hist' = [hist EXCEPT
                         !.sessionSuccesses =
                             IF session.world.launched > world.launched THEN 0 ELSE @ + 1,
                         !.lastRecycle =
                             IF /\ session.world.launched > world.launched
                                /\ cleaned.cleanups > world.cleanups
                             THEN "reset"
                             ELSE IF session.world.tabsCreated > world.tabsCreated
                                  THEN "tab" ELSE "kept",
                         !.loadsAtRecycle = SumSeq(hist.attempts),
                         !.successesAtRecycle = hist.sessionSuccesses + 1]
    /\ pdfDoc' = appendPdf(pdfDoc, PageUrl)
    /\ page' = PageIdle
    /\ options' = OptionsAfter(NewBrowserIsNeeded(run.pageGenerationCounter + 1), IsLastURL)
    /\ UNCHANGED <<isToCPage, pageURLs, resourceLoadErrorCounter, px, main>>

\* line 358-372: every URL is done, the session is torn down
Finish ==
    /\ run.pos = "loop"
    /\ run.pageURLIdx >= Len(pageURLs)
    /\ ~run.rejectInProgress
    /\ CleanupCallable(run.browserPage, TRUE)
    /\ world' = cleanupBrowser(world, run.browserPage, TRUE)
    /\ run' = [run EXCEPT !.pos = "done"]
    /\ UNCHANGED <<inputVars, resourceLoadErrorCounter, page, pdfDoc, hist, px, main>>

(***************************************************************************)
(* Spec: whole generatePdfs runs.                                          *)
(***************************************************************************)
RunOptions ==
    { [DefaultOptions EXCEPT !.retries = r, !.force = f, !.keepBrowser = kb,
                             !.newBrowserPerUrls = n,
                             !.resourceHttpErrorAllowed = 0,
                             !.pageErrorTextPattern = Array(<<"access denied">>)] :
        r \in {0, 1, 2, 5}, f \in BOOLEAN, kb \in BOOLEAN, n \in {0, 2, 3} }

RunUrlLists == { <<"u1">>, <<"u1", "u2">>, <<"u1", "u1">> }

\* the URLs of a list
Range(list) == {list[i] : i \in 1..Len(list)}

\* long retry chains are followed for one URL, short ones for two
Init ==
    /\ options \in RunOptions
    /\ isToCPage \in BOOLEAN
    /\ pageURLs \in RunUrlLists
    /\ Len(pageURLs) = 1 \/ options.retries \in {1, 2}
    /\ resourceLoadErrorCounter = 0
    /\ page = PageIdle
    /\ run = RunIdle
    /\ \E cached \in SUBSET Range(pageURLs) :
         world = [WorldEmpty EXCEPT
                    !.pdfDir = [u \in URLs |-> IF u \in cached THEN "old" ELSE "none"]]
    /\ pdfDoc = <<>>
    /\ hist = [HistIdle EXCEPT !.attempts = [i \in 1..Len(pageURLs) |-> 0]]
    /\ px = PxIdle
    /\ main = MainIdle

Next ==
    \/ StartRun
    \/ ReuseCached
    \/ StartAttempt
    \/ PageStep
    \/ RetryAfterFailure
    \/ GiveUp
    \/ AfterSuccess
    \/ Finish

Spec == Init /\ [][Next]_vars

(***************************************************************************)
(* SpecRecycle: generatePdfs runs over three URLs with a browser recycled  *)
(* after every attempt or every second one (line 341-346).                 *)
(***************************************************************************)
InitRecycle ==
    /\ options \in
          { [DefaultOptions EXCEPT !.retries = 2, !.force = f, !.keepBrowser = kb,
                                   !.newBrowserPerUrls = n,
                                   !.resourceHttpErrorAllowed = 0,
                                   !.pageErrorTextPattern = Array(<<"access denied">>)] :
              f \in BOOLEAN, kb \in BOOLEAN, n \in {1, 2} }
    /\ isToCPage = FALSE
    /\ pageURLs \in {<<"u1", "u2">>, <<"u1", "u2", "u3">>}
    /\ resourceLoadErrorCounter = 0
    /\ page = PageIdle
    /\ run = RunIdle
    /\ \E cached \in {{}, {"u2"}} :
         world = [WorldEmpty EXCEPT
                    !.pdfDir = [u \in URLs |-> IF u \in cached THEN "old" ELSE "none"]]
    /\ pdfDoc = <<>>
    /\ hist = [HistIdle EXCEPT !.attempts = [i \in 1..Len(pageURLs) |-> 0]]
    /\ px = PxIdle
    /\ main = MainIdle

SpecRecycle == InitRecycle /\ [][Next]_vars

(***************************************************************************)
(* Runs in an environment where calls fail. world.faults names the calls   *)
(* that can fail: a teardown sub-step named there fails whenever it is     *)
(* made; puppeteer.launch(), browser.newPage() and appendPdf() named there *)
(* may throw at any call.                                                  *)
(***************************************************************************)
\* the calls of a session creation that can throw: line 130 and 137/147
SessionFaults == {"launch", "newPage"}

\* whether this newBrowserPage call can throw by the named call
SessionCanThrow(startNew, isLastURL, fault) ==
    /\ ~(options.keepBrowser /\ isLastURL)
    /\ fault \in world.faults \cap SessionFaults
    /\ fault = "launch" => startNew

\* the environment a throwing newBrowserPage call leaves: nothing when the
\* launch failed (line 130); a browser without a tab of this run, or the
\* old tab closed, when newPage() failed (line 137, 147)
newBrowserPageThrows(w, startNew, proxyIndex, currentPage, fault) ==
    IF fault = "launch" THEN w
    ELSE IF startNew
    THEN [w EXCEPT !.launched = @ + 1,
                   !.openBrowsers = @ \cup {w.launched + 1},
                   !.launchProxies = Append(@, LaunchProxy(proxyIndex).proxy)]
    ELSE [w EXCEPT !.openTabs = TabClosed(w, @, currentPage)]

\* options after a throwing call: line 133-136 are passed when the launch succeeded
OptionsAfterThrow(startNew, fault) ==
    IF fault = "launch" THEN options ELSE OptionsAfter(startNew, FALSE)

\* line 358-368: the finally block of a run ended by an exception
FinallyAfterThrow(w) ==
    IF run.rejectInProgress THEN w ELSE cleanupBrowser(w, run.browserPage, TRUE)

\* line 288: the first session cannot be created; the call is outside the try
StartRunFails ==
    /\ run.pos = "idle"
    /\ \E fault \in SessionFaults :
         /\ SessionCanThrow(TRUE, FALSE, fault)
         /\ world' = newBrowserPageThrows(world, TRUE, 0, NoPage, fault)
         /\ options' = OptionsAfterThrow(TRUE, fault)
         /\ hist' = [hist EXCEPT !.thrown = fault]
    /\ run' = [run EXCEPT !.pos = "rejected"]
    /\ UNCHANGED <<isToCPage, pageURLs, resourceLoadErrorCounter, page, pdfDoc, px, main>>

\* line 324-335 and 358-368: the session of the retry cannot be created
RetrySessionFails ==
    /\ run.pos = "attempt"
    /\ page.pos = "returned"
    /\ page.pageLoadError
    /\ MayRetry
    /\ CleanupCallable(run.browserPage, IsLastURL)
    /\ \E fault \in SessionFaults :
         /\ SessionCanThrow(TRUE, IsLastURL, fault)
         /\ LET counted == run.pageLoadErrorCounter + 1
                cleaned == cleanupBrowser(FrameDropped(world), run.browserPage, IsLastURL)
                thrown  == newBrowserPageThrows(cleaned, TRUE, run.proxyIndex, NoPage, fault)
            IN  /\ world' = FinallyAfterThrow(thrown)
                /\ run' = [run EXCEPT !.pos = "rejected",
                                      !.pageGenerationCounter = @ + 1,
                                      !.pageLoadErrorCounter =
                                          IF WaitsBeforeRetry(counted) THEN 0 ELSE counted]
                /\ hist' = [hist EXCEPT
                              !.sleptSeconds =
                                  @ + (IF WaitsBeforeRetry(counted)
                                       THEN options.waitTime ELSE 0),
                              !.thrown = fault]
         /\ options' = OptionsAfterThrow(TRUE, fault)
    /\ page' = PageIdle
    /\ UNCHANGED <<isToCPage, pageURLs, resourceLoadErrorCounter, pdfDoc, px, main>>

\* line 341-346 and 358-368: the session after a success cannot be created
SuccessSessionFails ==
    /\ run.pos = "attempt"
    /\ page.pos = "returned"
    /\ ~page.pageLoadError
    /\ \E fault \in SessionFaults :
         LET generated == run.pageGenerationCounter + 1
             needed    == NewBrowserIsNeeded(generated)
             cleaned   == IF needed
                          THEN cleanupBrowser(FrameDropped(world), run.browserPage, IsLastURL)
                          ELSE FrameDropped(world)
             thrown    == newBrowserPageThrows(cleaned, needed, run.proxyIndex,
                                               run.browserPage, fault)
         IN  /\ SessionCanThrow(needed, IsLastURL, fault)
             /\ world' = FinallyAfterThrow(thrown)
             /\ run' = [run EXCEPT !.pos = "rejected",
                                   !.pageGenerationCounter = generated]
             /\ hist' = [hist EXCEPT !.thrown = fault]
             /\ options' = OptionsAfterThrow(needed, fault)
    /\ page' = PageIdle
    /\ UNCHANGED <<isToCPage, pageURLs, resourceLoadErrorCounter, pdfDoc, px, main>>

\* line 308 and 358-368: appending the artifact that was found throws
ReuseCachedFails ==
    /\ run.pos = "loop"
    /\ run.pageURLIdx < Len(pageURLs)
    /\ ReusesCached
    /\ "appendPdf" \in world.faults
    /\ world' = FinallyAfterThrow(world)
    /\ run' = [run EXCEPT !.pos = "rejected"]
    /\ hist' = [hist EXCEPT !.thrown = "appendPdf"]
    /\ UNCHANGED <<inputVars, resourceLoadErrorCounter, page, pdfDoc, px, main>>

\* line 341-350 and 358-368: the next session is there and appending the
\* new artifact throws
AppendFails ==
    /\ run.pos = "attempt"
    /\ page.pos = "returned"
    /\ ~page.pageLoadError
    /\ "appendPdf" \in world.faults
    /\ LET generated == run.pageGenerationCounter + 1
           needed    == NewBrowserIsNeeded(generated)
           cleaned   == IF needed
                        THEN cleanupBrowser(FrameDropped(world), run.browserPage, IsLastURL)
                        ELSE FrameDropped(world)
           session   == newBrowserPage(cleaned, needed, run.proxyIndex, IsLastURL,
                                       run.browserPage)
       IN  /\ world' = cleanupBrowser(session.world, session.browserPage, TRUE)
           /\ run' = [run EXCEPT !.pos = "rejected",
                                 !.pageGenerationCounter = generated,
                                 !.retURLs = Array(page.pageURLs),
                                 !.pageLoadErrorCounter = 0,
                                 !.browserPage = session.browserPage,
                                 !.proxyIndex = session.proxyIndex]
    /\ hist' = [hist EXCEPT !.thrown = "appendPdf"]
    /\ page' = PageIdle
    /\ options' = OptionsAfter(NewBrowserIsNeeded(run.pageGenerationCounter + 1), IsLastURL)
    /\ UNCHANGED <<isToCPage, pageURLs, resourceLoadErrorCounter, pdfDoc, px, main>>

\* line 154-181: the listener of a tab that is still open but is not the
\* tab of the attempt in flight counts a response
StaleResponse ==
    /\ run.pos = "attempt"
    /\ page.pos = "goto"
    /\ \E tab \in world.openTabs : tab # page.browserPage
    /\ \E response \in Responses : CountsAsError(response) /\ OnResponse(response)
    /\ resourceLoadErrorCounter < MaxErrors
    /\ hist' = [hist EXCEPT !.staleCounted = @ + 1]
    /\ UNCHANGED <<inputVars, page, run, world, pdfDoc, px, main>>

(***************************************************************************)
(* SpecFaults: generatePdfs runs on one or two URLs in environments with   *)
(* one kind of failing call, or with every teardown sub-step failing.      *)
(***************************************************************************)
FaultOptions ==
    { [DefaultOptions EXCEPT !.retries = r, !.keepBrowser = kb,
                             !.newBrowserPerUrls = n,
                             !.resourceHttpErrorAllowed = 0,
                             !.pageErrorTextPattern = Array(<<"access denied">>)] :
        r \in {1, 2}, kb \in BOOLEAN, n \in {0, 1} }

FaultSets ==
    { {}, {"closePage"}, {"closeBrowser"}, {"rm"}, {"mkdir"},
      {"closePage", "closeBrowser", "rm", "mkdir"},
      {"launch"}, {"newPage"}, {"appendPdf"} }

InitFaults ==
    /\ options \in FaultOptions
    /\ isToCPage = FALSE
    /\ pageURLs \in { <<"u1">>, <<"u1", "u2">> }
    /\ resourceLoadErrorCounter = 0
    /\ page = PageIdle
    /\ run = RunIdle
    /\ \E cached \in {{}, {"u1"}}, faults \in FaultSets :
         world = [WorldEmpty EXCEPT
                    !.pdfDir = [u \in URLs |-> IF u \in cached THEN "old" ELSE "none"],
                    !.faults = faults]
    /\ pdfDoc = <<>>
    /\ hist = [HistIdle EXCEPT !.attempts = [i \in 1..Len(pageURLs) |-> 0]]
    /\ px = PxIdle
    /\ main = MainIdle

NextFaults ==
    \/ Next
    \/ StaleResponse
    \/ StartRunFails
    \/ RetrySessionFails
    \/ SuccessSessionFails
    \/ ReuseCachedFails
    \/ AppendFails

SpecFaults == InitFaults /\ [][NextFaults]_vars

(***************************************************************************)
(* SpecTeardown: one cleanupBrowser call, line 187-275, followed through    *)
(* its suspension points: the poll for the pending protocol errors and the  *)
(* four sub-steps. The calls the browser has not answered yet settle one by *)
(* one; nothing issues a new call while cleanupBrowser waits.               *)
(***************************************************************************)
MaxPending == 3

\* a plausible slip: the poll looks at the count taken before it began
PollSeesStale(w) == w.teardown.errorCount

\* line 207: the poll reads browser.debugInfo.pendingProtocolErrors.length anew
PollSees(w) == w.pendingProtocolErrors

\* line 188-204: the early return, or the count is taken and the poll is
\* set up when the browser is connected and the count is not zero
CleanupEnter ==
    /\ world.teardown.pos = "called"
    /\ world' =
         IF options.keepBrowser /\ IsLastURL
         THEN [world EXCEPT !.teardown.pos = "returned"]
         ELSE LET begun ==
                    [world EXCEPT !.cleanups = @ + 1,
                                  !.teardown.called = TRUE,
                                  !.teardown.browser = run.browserPage.browser]
              IN  IF /\ run.browserPage.browser \in world.openBrowsers
                     /\ world.pendingProtocolErrors > 0
                  THEN [begun EXCEPT !.teardown.pos = "poll",
                                     !.teardown.errorCount = world.pendingProtocolErrors,
                                     !.teardown.waited = TRUE]
                  ELSE [begun EXCEPT !.teardown.pos = TeardownSteps[1]]
    /\ UNCHANGED <<inputVars, resourceLoadErrorCounter, page, run, pdfDoc, hist, px, main>>

\* line 206-212: the interval fires; the promise resolves on a count of zero
PollTick ==
    /\ world.teardown.pos = "poll"
    /\ world' = IF PollSees(world) = 0
                THEN [world EXCEPT !.teardown.pos = TeardownSteps[1]]
                ELSE world
    /\ UNCHANGED <<inputVars, resourceLoadErrorCounter, page, run, pdfDoc, hist, px, main>>

\* the browser answers a pending call, or the call's protocol timeout ends it
ProtocolCallSettles ==
    /\ world.teardown.pos \in {"called", "poll"}
    /\ world.pendingProtocolErrors > 0
    /\ world' = [world EXCEPT !.pendingProtocolErrors = @ - 1]
    /\ UNCHANGED <<inputVars, resourceLoadErrorCounter, page, run, pdfDoc, hist, px, main>>

\* line 226-274: the awaited sub-step settles and the next one is begun
SubStepSettles ==
    /\ \E i \in 1..Len(TeardownSteps) :
         /\ world.teardown.pos = TeardownSteps[i]
         /\ world' = [TeardownStep(world, TeardownSteps[i], run.browserPage) EXCEPT
                        !.teardown.pos = IF i < Len(TeardownSteps)
                                         THEN TeardownSteps[i + 1] ELSE "returned"]
    /\ UNCHANGED <<inputVars, resourceLoadErrorCounter, page, run, pdfDoc, hist, px, main>>

InitTeardown ==
    /\ \E kb \in BOOLEAN : options = [DefaultOptions EXCEPT !.keepBrowser = kb]
    /\ isToCPage = FALSE
    /\ pageURLs = <<"u1", "u2">>
    /\ resourceLoadErrorCounter = 0
    /\ page = PageIdle
    /\ \E idx \in {0, 1} :
         run = [RunIdle EXCEPT !.pos = "attempt", !.pageURLIdx = idx,
                               !.browserPage = LivePage]
    /\ \E faults \in SUBSET Range(TeardownSteps), pending \in 0..MaxPending,
          connected \in BOOLEAN :
         world = [WorldEmpty EXCEPT
                    !.launched = 1, !.tabsCreated = 1,
                    !.openBrowsers = IF connected THEN {1} ELSE {},
                    !.openTabs = IF connected THEN {LivePage} ELSE {},
                    !.faults = faults,
                    !.pendingProtocolErrors = pending,
                    !.teardown.pos = "called"]
    /\ pdfDoc = <<>>
    /\ hist = HistIdle
    /\ px = PxIdle
    /\ main = MainIdle

NextTeardown ==
    \/ CleanupEnter
    \/ PollTick
    \/ ProtocolCallSettles
    \/ SubStepSettles

\* the interval keeps firing, pending calls keep settling, and every awaited
\* sub-step settles
SpecTeardown ==
    /\ InitTeardown
    /\ [][NextTeardown]_vars
    /\ WF_vars(CleanupEnter)
    /\ WF_vars(PollTick)
    /\ WF_vars(ProtocolCallSettles)
    /\ WF_vars(SubStepSettles)

(***************************************************************************)
(* SpecSession: newBrowserPage called on drawn arguments, with or without  *)
(* a previous tab, one call after the other up to MaxTabs tabs.            *)
(***************************************************************************)
MaxTabs == 3

\* line 139: `currentPage.browser()` needs a page object when no launch is asked for
SessionCallable(startNew, isLastURL, currentPage) ==
    (options.keepBrowser /\ isLastURL) \/ startNew \/ currentPage.defined

\* one call: the returned tab is kept, a TypeError leaves everything as it was
CallNewBrowserPage ==
    /\ world.tabsCreated < MaxTabs
    /\ \E startNew \in BOOLEAN, isLastURL \in BOOLEAN, currentPage \in {NoPage, run.browserPage} :
         LET callable == SessionCallable(startNew, isLastURL, currentPage)
             session  == newBrowserPage(world, startNew, run.proxyIndex, isLastURL, currentPage)
         IN  /\ world' = IF callable THEN session.world ELSE world
             /\ run' = IF callable
                       THEN [run EXCEPT !.browserPage = session.browserPage,
                                        !.proxyIndex = session.proxyIndex]
                       ELSE run
             /\ options' = IF callable THEN OptionsAfter(startNew, isLastURL) ELSE options
             /\ hist' = [hist EXCEPT !.session =
                           [called |-> TRUE, startNew |-> startNew, isLastURL |-> isLastURL,
                            currentPage |-> currentPage,
                            launchedBefore |-> world.launched, threw |-> ~callable]]
    /\ UNCHANGED <<isToCPage, pageURLs, resourceLoadErrorCounter, page, pdfDoc, px, main>>

InitSession ==
    /\ \E kb \in BOOLEAN, p \in {NoArray, Array(<<"proxyA", "proxyB">>)} :
         options = [DefaultOptions EXCEPT !.keepBrowser = kb, !.proxy = p]
    /\ isToCPage = FALSE
    /\ pageURLs = <<"u1", "u2">>
    /\ resourceLoadErrorCounter = 0
    /\ page = PageIdle
    /\ run = RunIdle
    /\ world = WorldEmpty
    /\ pdfDoc = <<>>
    /\ hist = HistIdle
    /\ px = PxIdle
    /\ main = MainIdle

SpecSession == InitSession /\ [][CallNewBrowserPage]_vars

(***************************************************************************)
(* SpecRetry: generatePdfs runs on one or two URLs under drawn proxy pools *)
(* and wait times; ToC runs are followed without a pool, a user agent      *)
(* given by the caller with four retries and no wait time.                 *)
(***************************************************************************)
RetryOptions ==
    { [DefaultOptions EXCEPT !.retries = r, !.proxy = p, !.waitTime = w,
                             !.userAgent = a,
                             !.resourceHttpErrorAllowed = 0,
                             !.pageErrorTextPattern = Array(<<"access denied">>)] :
        r \in {0, 4},
        p \in {NoArray, Array(<<>>), Array(<<"proxyA">>), Array(<<"proxyA", "proxyB">>),
               Array(<<"", "proxyB">>)},
        w \in {0, 2},
        a \in {DefaultOptions.userAgent, [text |-> "curl/8", version |-> <<>>]} }

InitRetry ==
    /\ options \in RetryOptions
    /\ isToCPage \in BOOLEAN
    /\ pageURLs \in {<<"u1">>, <<"u1", "u2">>}
    /\ Len(pageURLs) = 1 \/ (options.retries = 4 /\ ~isToCPage)
    /\ isToCPage => ~options.proxy.defined
    /\ options.userAgent # DefaultOptions.userAgent =>
         (options.retries = 4 /\ options.waitTime = 0 /\ ~isToCPage)
    /\ options.proxy = Array(<<"", "proxyB">>) =>
         (options.retries = 4 /\ options.waitTime = 0 /\ Len(pageURLs) = 1
            /\ options.userAgent = DefaultOptions.userAgent)
    /\ resourceLoadErrorCounter = 0
    /\ page = PageIdle
    /\ run = RunIdle
    /\ \E cached \in {{}, {"u1"}} :
         world = [WorldEmpty EXCEPT
                    !.pdfDir = [u \in URLs |-> IF u \in cached THEN "old" ELSE "none"]]
    /\ pdfDoc = <<>>
    /\ hist = [HistIdle EXCEPT !.attempts = [i \in 1..Len(pageURLs) |-> 0]]
    /\ px = PxIdle
    /\ main = MainIdle

SpecRetry == InitRetry /\ [][Next]_vars

(***************************************************************************)
(* main(proc, url, options, command)    src/bin/pdfgen4vcman-cli.js:120-399 *)
(* Ink coverage is counted in thousandths. A line of Ghostscript's inkcov  *)
(* output is the sequence of its whitespace-separated fields; a field is   *)
(* what parseFloat makes of it: a number or NaN.                           *)
(***************************************************************************)
Num(v) == [num |-> TRUE, val |-> v]

Text == [num |-> FALSE, val |-> 0]

\* parseFloat() of a field is NaN for a field that does not start as a number
IsNaN(field) == ~field.num

\* "c m y k CMYK OK"
InkLine(c, m, y, k) == <<Num(c), Num(m), Num(y), Num(k), Text, Text>>

\* line 320-331: the sum of the first four fields, -1 after a NaN field
RECURSIVE SumFields(_, _, _)
SumFields(fields, k, sum) ==
    IF k >= 4 THEN sum
    ELSE IF IsNaN(fields[k + 1]) THEN 0 - 1
    ELSE SumFields(fields, k + 1, sum + fields[k + 1].val)

\* pdf-lib's removePage(index) throws unless 0 <= index < getPageCount()
RemovePageThrows(doc, index) == index < 0 \/ index >= Len(doc)

removePage(doc, index) == SubSeq(doc, 1, index) \o SubSeq(doc, index + 2, Len(doc))

\* a plausible slip: the page is removed at the line's own index
RemovedIndexUnshifted(i, removedPageCount) == i

\* line 335: the index handed to removePage for line #i
RemovedIndex(i, removedPageCount) == i - removedPageCount

\* line 313-344, the loop over the lines from line #i on: acc is the
\* document, removedPageCount, exitCode and whether removePage threw
RECURSIVE CleanupLoop(_, _, _)
CleanupLoop(lines, i, acc) ==
    IF i >= Len(lines) \/ acc.threw THEN acc
    ELSE LET line == lines[i + 1]
         IN  IF Len(line) > 0 /\ Len(line) >= 4
             THEN LET sum    == SumFields(line, 0, 0)
                      marked == IF sum < 0 THEN [acc EXCEPT !.exitCode = 7] ELSE acc
                      index  == RemovedIndex(i, acc.removedPageCount)
                  IN  IF sum >= 0 /\ sum < options.pdfCleanupThreshold
                      THEN IF RemovePageThrows(marked.doc, index)
                           THEN [marked EXCEPT !.threw = TRUE]
                           ELSE CleanupLoop(lines, i + 1,
                                    [marked EXCEPT !.doc = removePage(@, index),
                                                   !.removedPageCount = @ + 1])
                      ELSE CleanupLoop(lines, i + 1, marked)
             ELSE CleanupLoop(lines, i + 1, acc)

\* line 356-375: the exit code after a failed spawn
SpawnFailureCode(spawnResult) ==
    IF spawnResult.stderr THEN 13
    ELSE IF spawnResult.stdout # <<>> THEN 12
    ELSE IF spawnResult.error = "ENOENT" THEN 11
    ELSE IF spawnResult.error # "none" THEN 10
    ELSE 9

\* pdfDoc.save() and writeFile(outputfile, ...)
WriteOutput(file, doc) == [writes |-> file.writes + 1, pages |-> doc]

\* line 87-107: the directories main created with mkdtemp are removed; a
\* directory given with --user-dir or --pdf-dir is not in frame.temporary
cleanup(frame) == [frame EXCEPT !.temporary = {}]

\* line 391-398: cleanup() of the temporary directories, then the exit
Exit(frame) == [cleanup(frame) EXCEPT !.pos = "exited"]

\* a plausible slip: the rejection handler forgets pdfGenerationResult
ContentRejectedKeepsResult(frame) ==
    [frame EXCEPT !.exitCode = 5, !.rejected = @ \cup {"content"}]

\* line 267-271: the .catch() of the content run
ContentRejected(frame) ==
    [frame EXCEPT !.pdfGenerationResult = FALSE, !.exitCode = 5,
                  !.rejected = @ \cup {"content"}]

\* line 246-249: the .catch() of the ToC run; the awaited value is undefined
TocRejected(frame) ==
    [frame EXCEPT !.exitCode = 3, !.pageUrls = NoArray, !.rejected = @ \cup {"toc"}]

\* line 255-257
TocLimited(urls) ==
    IF options.tocLimit > 0 /\ urls.defined /\ Len(urls.list) > 0
    THEN Array(SubSeq(urls.list, 1, IF options.tocLimit < Len(urls.list)
                                     THEN options.tocLimit ELSE Len(urls.list)))
    ELSE urls

\* the call of generatePdfs(puppeteer, list, ..., pdfDoc, options, toc)
CallGeneratePdfs(list, toc) ==
    /\ pageURLs' = list
    /\ isToCPage' = toc
    /\ run' = RunIdle
    /\ hist' = [HistIdle EXCEPT !.attempts = [i \in 1..Len(list) |-> 0]]

\* line 229-262: the checks of the arguments, then the first generatePdfs call
MainStart ==
    /\ main.pos = "idle"
    /\ IF options.output = ""
       THEN /\ main' = [main EXCEPT !.pos = "exited", !.exitCode = 2]
            /\ UNCHANGED <<pageURLs, isToCPage, run, hist>>
       ELSE IF options.toc = TRUE
       THEN /\ main' = [main EXCEPT !.pos = "toc"]
            /\ CallGeneratePdfs(<<main.url>>, TRUE)
       ELSE /\ main' = [main EXCEPT !.pos = "content", !.pageUrls = Array(<<main.url>>)]
            /\ CallGeneratePdfs(<<main.url>>, FALSE)
    /\ UNCHANGED <<options, resourceLoadErrorCounter, page, world, pdfDoc, px>>

\* line 245-266: the ToC run has settled; its links are the content run's list
MainAfterToc ==
    /\ main.pos = "toc"
    /\ run.pos \in {"done", "rejected"}
    /\ LET settled == IF run.pos = "rejected" THEN TocRejected(main)
                      ELSE [main EXCEPT !.pageUrls = run.retURLs]
           limited == [settled EXCEPT !.pageUrls = TocLimited(@)]
       IN  IF limited.pageUrls.defined /\ Len(limited.pageUrls.list) > 0
           THEN /\ main' = [limited EXCEPT !.pos = "content"]
                /\ CallGeneratePdfs(limited.pageUrls.list, FALSE)
           ELSE /\ main' = Exit(limited)
                /\ UNCHANGED <<pageURLs, isToCPage, run, hist>>
    /\ UNCHANGED <<options, resourceLoadErrorCounter, page, world, pdfDoc, px>>

\* line 267-284 and 385-388: the content run has settled; the combined
\* document is saved unless the run was rejected or the document is empty
MainAfterContent ==
    /\ main.pos = "content"
    /\ run.pos \in {"done", "rejected"}
    /\ LET settled == IF run.pos = "rejected" THEN ContentRejected(main) ELSE main
       IN  main' =
             IF ~settled.pdfGenerationResult THEN Exit(settled)
             ELSE IF Len(pdfDoc) > 0
             THEN LET written == [settled EXCEPT
                                    !.outputFile = WriteOutput(@, pdfDoc),
                                    !.saved = pdfDoc]
                  IN  IF main.linux /\ options.pdfCleanup
                      THEN [written EXCEPT !.pos = "inkcov"]
                      ELSE Exit(written)
             ELSE Exit([settled EXCEPT !.exitCode = 15])
    /\ UNCHANGED <<inputVars, resourceLoadErrorCounter, page, run, world, pdfDoc, hist, px>>

\* what Ghostscript may print for a document of n pages: one line per page
\* and the empty string split() leaves after the last newline
BlankLine == InkLine(0, 0, 0, 1)

InkLines == {BlankLine, InkLine(2, 2, 2, 2), InkLine(5, 5, 5, 5), InkLine(10, 10, 10, 20)}

ShortLine == <<Num(0), Num(0), Text>>

NaNLine == <<Num(0), Text, Num(0), Num(1), Text, Text>>

WarningLine == <<Text, Text, Text, Text, Text>>

WellFormedOutputs(n) == { lines \o << <<>> >> : lines \in [1..n -> InkLines] }

MalformedOutputs(n) ==
    { [k \in 1..n |-> IF k = j THEN bad ELSE base] \o << <<>> >> :
        j \in 1..n, bad \in {ShortLine, NaNLine},
        base \in {BlankLine, InkLine(5, 5, 5, 5)} }
    \cup { <<WarningLine>> \o [k \in 1..n |-> base] \o << <<>> >> :
             base \in {BlankLine, InkLine(5, 5, 5, 5)} }

\* what spawnSync() may return (line 295-297)
SpawnResults(n) ==
    { [status |-> 0, error |-> "none", stdout |-> out, stderr |-> FALSE] :
        out \in WellFormedOutputs(n) \cup MalformedOutputs(n) \cup {<<>>} }
    \cup { [status |-> 1, error |-> "none", stdout |-> out, stderr |-> e] :
             out \in {<<>>, <<WarningLine>>}, e \in BOOLEAN }
    \cup { [status |-> 0 - 1, error |-> code, stdout |-> <<>>, stderr |-> FALSE] :
             code \in {"ENOENT", "EACCES"} }

\* line 284-384: Ghostscript reports the ink coverage of the saved file's
\* pages, the pages below the threshold are removed and the file is rewritten
CleanupEmptyPages ==
    /\ main.pos = "inkcov"
    /\ \E spawnResult \in SpawnResults(Len(main.outputFile.pages)) :
         LET called == [main EXCEPT !.spawned = TRUE, !.spawnResult = spawnResult]
         IN  IF spawnResult.status = 0 /\ spawnResult.error = "none"
             THEN IF spawnResult.stdout # <<>>
                  THEN LET done == CleanupLoop(spawnResult.stdout, 0,
                                       [doc |-> pdfDoc, removedPageCount |-> 0,
                                        exitCode |-> main.exitCode, threw |-> FALSE])
                           looped == [called EXCEPT
                                        !.removedPageCount = done.removedPageCount,
                                        !.removePageThrew = done.threw,
                                        !.exitCode = done.exitCode]
                       IN  /\ pdfDoc' = done.doc
                           /\ main' =
                                IF done.threw
                                THEN Exit([looped EXCEPT !.exitCode = 98])
                                ELSE IF done.removedPageCount > 0
                                THEN Exit([looped EXCEPT
                                             !.outputFile = WriteOutput(@, done.doc)])
                                ELSE Exit(looped)
                  ELSE /\ main' = Exit([called EXCEPT !.exitCode = 8])
                       /\ UNCHANGED pdfDoc
             ELSE /\ main' = Exit([called EXCEPT !.exitCode = SpawnFailureCode(spawnResult)])
                  /\ UNCHANGED pdfDoc
    /\ UNCHANGED <<inputVars, resourceLoadErrorCounter, page, run, world, hist, px>>

(***************************************************************************)
(* SpecMain: whole runs of the command line.                               *)
(***************************************************************************)
\* the options the command line can build
MainOptions ==
    { [DefaultOptions EXCEPT !.retries = r, !.toc = t, !.tocLimit = l,
                             !.pdfCleanup = c, !.output = o] :
        r \in {1, 2}, t \in BOOLEAN, l \in {0, 2}, c \in BOOLEAN,
        o \in {"manual.pdf", ""} }

\* the links of the ToC page
TocAnchorLists == { <<>>, <<"u1">>, <<"u2">>, <<"u1", "x1", "u2">>, <<"u1", "u2", "u3">> }

\* retries are followed for the short manuals
InitMain ==
    /\ options \in MainOptions
    /\ isToCPage = FALSE
    /\ pageURLs = <<>>
    /\ resourceLoadErrorCounter = 0
    /\ page = PageIdle
    /\ run = [RunIdle EXCEPT !.pos = "uncalled"]
    /\ \E anchors \in TocAnchorLists, cached \in {{}, {"u1"}} :
         /\ Len(anchors) <= 1 \/ cached = {}
         /\ world = [WorldEmpty EXCEPT
                       !.tocAnchors = anchors,
                       !.pdfDir = [u \in URLs |-> IF u \in cached THEN "old" ELSE "none"]]
    /\ pdfDoc = <<>>
    /\ hist = HistIdle
    /\ px = PxIdle
    /\ \E linux \in BOOLEAN : main = [MainIdle EXCEPT !.linux = linux]

\* ErrorTextScan is left out: the command line sets no pageErrorTextPattern
NextMain ==
    \/ MainStart
    \/ MainAfterToc
    \/ MainAfterContent
    \/ CleanupEmptyPages
    \/ StartRun
    \/ ReuseCached
    \/ StartAttempt
    \/ Response
    \/ WatcherTick
    \/ GotoSettles
    \/ OrphanTick
    \/ DisableHyphenation
    \/ ScrollToPageBottom
    \/ WaitForIdleAfterScroll
    \/ CollectTocLinks
    \/ ModifyToc
    \/ RemoveRelated
    \/ ConvertHyperlinks
    \/ RejectConsent
    \/ RemovePageElements
    \/ RemoveIframes
    \/ WaitForIdleAfterDom
    \/ RenderPdf
    \/ RetryAfterFailure
    \/ GiveUp
    \/ AfterSuccess
    \/ Finish

SpecMain == InitMain /\ [][NextMain]_vars

(***************************************************************************)
(* SpecExit: runs of the command line on short manuals, with the process   *)
(* events main listens to (line 199-214) arriving at any moment and with   *)
(* either directory temporary or given.                                    *)
(***************************************************************************)
\* line 199-214: uncaughtException, unhandledRejection and SIGINT: cleanup()
\* and proc.exit(99 | 98 | 97)
ProcessEvent ==
    /\ main.pos # "exited"
    /\ \E code \in {97, 98, 99} :
         main' = [cleanup(main) EXCEPT !.pos = "exited", !.exitCode = code]
    /\ UNCHANGED <<inputVars, resourceLoadErrorCounter, page, run, world, pdfDoc, hist, px>>

InitExit ==
    /\ options \in MainOptions
    /\ options.tocLimit = 0
    /\ isToCPage = FALSE
    /\ pageURLs = <<>>
    /\ resourceLoadErrorCounter = 0
    /\ page = PageIdle
    /\ run = [RunIdle EXCEPT !.pos = "uncalled"]
    /\ \E anchors \in {<<>>, <<"u1">>}, cached \in {{}, {"u1"}} :
         world = [WorldEmpty EXCEPT
                    !.tocAnchors = anchors,
                    !.pdfDir = [u \in URLs |-> IF u \in cached THEN "old" ELSE "none"]]
    /\ pdfDoc = <<>>
    /\ hist = HistIdle
    /\ px = PxIdle
    /\ \E given \in SUBSET MainIdle.temporary :
         main = [MainIdle EXCEPT !.temporary = @ \ given]

SpecExit == InitExit /\ [][NextMain \/ ProcessEvent]_vars

(***************************************************************************)
(* Properties.                                                             *)
(***************************************************************************)
\* the allowed number of resource errors is exceeded
OverLimit(counter) == GreaterThan(counter, options.resourceHttpErrorAllowed)

\* a failed attempt has returned to generatePdfs
FailedAttemptReturned ==
    run.pos = "attempt" /\ page.pos = "returned" /\ page.pageLoadError

\* C1: with retries = 0 generatePdfs never reaches its rejection and every
\* failed attempt is followed by a retry; with retries = k > 0 no URL gets
\* more than k attempts, a failed attempt is followed by the rejection
\* exactly when it was the k-th of its URL, and by a retry otherwise.
C1_RetryBudget ==
    /\ options.retries = 0 =>
         /\ run.pos # "rejected"
         /\ FailedAttemptReturned => ENABLED RetryAfterFailure /\ ~ENABLED GiveUp
    /\ options.retries > 0 /\ FailedAttemptReturned =>
         IF hist.attempts[run.pageURLIdx + 1] = options.retries
         THEN ENABLED GiveUp /\ ~ENABLED RetryAfterFailure
         ELSE ENABLED RetryAfterFailure /\ ~ENABLED GiveUp
    /\ options.retries > 0 =>
         /\ \A i \in 1..Len(pageURLs) : hist.attempts[i] <= options.retries
         /\ run.pos = "loop" /\ run.pageURLIdx < Len(pageURLs)
               => hist.attempts[run.pageURLIdx + 1] < options.retries
         /\ run.pos = "rejected" => hist.attempts[run.pageURLIdx + 1] = options.retries

\* C1 witness: five failed attempts of one URL under retries = 5, then the rejection
C1_Witness ==
    /\ options.retries = 5
    /\ run.pos = "rejected"
    /\ hist.attempts[run.pageURLIdx + 1] = 5

\* C1 second witness: under retries = 0 the attempts of a URL go on up to the bound
C1_WitnessUnlimited ==
    /\ options.retries = 0
    /\ hist.attempts[1] = MaxAttempts
    /\ run.pos = "attempt" /\ page.pos = "returned" /\ page.pageLoadError

\* the threshold the claim C2 states for each gated step
C2_Threshold(step) ==
    CASE step = "goto"            -> 11
      [] step = "scroll"          -> 10
      [] step = "idleAfterScroll" -> 9
      [] step = "tocLinks"        -> 8
      [] step = "tocModify"       -> 6
      [] step = "relatedRemoval"  -> 5
      [] step = "hyperlinks"      -> 4
      [] step = "onetrust"        -> 3
      [] step = "elementRemoval"  -> 2
      [] step = "iframeRemoval"   -> 1
      [] step = "idleAfterDom"    -> 0

\* the failure signal of `step` was raised and its gate ended the attempt
AbortedAt(step) == page.abortStep = step /\ page.abortReason = "gate"

\* C2 as stated: for leniency in 0..11 a failure signal at a gated step aborts
\* the attempt iff leniency <= T, and with leniency = 11 no gated step's
\* failure signal aborts the attempt.
C2_AsStated ==
    options.leniency \in 0..11 =>
      /\ \A step \in GatedSteps :
           step \in page.signalled => (AbortedAt(step) <=> options.leniency <= C2_Threshold(step))
      /\ options.leniency = 11 => \A step \in GatedSteps : ~AbortedAt(step)

\* C2 amended: for leniency in 0..11 a failure signal at a gated step aborts
\* the attempt iff leniency <= T; with leniency = 11 the only gated step whose
\* failure signal aborts the attempt is the navigation (T = 11).
C2_Gating ==
    options.leniency \in 0..11 =>
      /\ \A step \in GatedSteps :
           step \in page.signalled => (AbortedAt(step) <=> options.leniency <= C2_Threshold(step))
      /\ options.leniency = 11 => \A step \in GatedSteps \ {"goto"} : ~AbortedAt(step)

\* C2 witness: with leniency = 5 the signal of the related-content removal
\* ends the attempt (5 <= 5) after the navigation, the scroll and the wait
\* of a content page passed without a signal
C2_Witness ==
    /\ options.leniency = 5
    /\ AbortedAt("relatedRemoval")
    /\ page.signalled = {"relatedRemoval"}

\* C2 second witness: with leniency = 6 the same signal is let through and
\* the attempt ends with a saved PDF
C2_WitnessPassed ==
    /\ options.leniency = 6
    /\ "relatedRemoval" \in page.signalled
    /\ page.pos = "returned" /\ ~page.pageLoadError

\* C3: at the head of the inner loop, a content task (not the ToC page)
\* without force whose artifact exists starts no attempt and appends the
\* artifact as it is on disk; with force = true or on the ToC page the next
\* thing the loop does is start an attempt, artifact or not (a tick of a
\* timer in between is not a step of the loop).
C3_CacheReuse ==
    [][ (run.pos = "loop" /\ run.pageURLIdx < Len(pageURLs) /\ run' # run) =>
          IF world.pdfDir[PageUrl] # "none" /\ ~isToCPage /\ options.force # TRUE
          THEN /\ hist'.attempts = hist.attempts
               /\ page'.pos = "idle"
               /\ world'.pdfDir = world.pdfDir
               /\ Len(pdfDoc') = Len(pdfDoc) + PdfPages(PageUrl)
               /\ \A n \in 1..Len(pdfDoc) : pdfDoc'[n] = pdfDoc[n]
               /\ \A n \in 1..PdfPages(PageUrl) :
                     pdfDoc'[Len(pdfDoc) + n] =
                         [url |-> PageUrl, version |-> world.pdfDir[PageUrl], no |-> n]
          ELSE /\ hist'.attempts[run.pageURLIdx + 1] = hist.attempts[run.pageURLIdx + 1] + 1
               /\ page'.pos \in {"goto", "returned"}
               /\ pdfDoc' = pdfDoc ]_vars

\* C3 witness: the first URL was cached and has been appended without an attempt
C3_Witness ==
    /\ ~isToCPage /\ options.force # TRUE
    /\ run.pageURLIdx >= 1
    /\ hist.attempts[1] = 0
    /\ pdfDoc # <<>> /\ pdfDoc[1] = [url |-> pageURLs[1], version |-> "old", no |-> 1]

\* C3 second witness: with force = true a cached first URL was rendered again
C3_WitnessForced ==
    /\ options.force = TRUE
    /\ hist.attempts[1] >= 1
    /\ pdfDoc # <<>> /\ pdfDoc[1] = [url |-> pageURLs[1], version |-> "new", no |-> 1]

\* the scenario of C4: one URL, retries = 5, two failed attempts that each
\* ended with the error counter over the limit, success on the third, run ended
C4_Scenario ==
    /\ Len(pageURLs) = 1
    /\ options.retries = 5
    /\ run.pos = "done"
    /\ hist.attempts[1] = 3
    /\ ~hist.otherFailure

\* C4 as stated: the run makes exactly 2 cleanupBrowser resets, appends once
\* and ends with pageLoadErrorCounter = 0.
C4_AsStated ==
    C4_Scenario =>
      /\ world.cleanups = 2
      /\ Len(pdfDoc) = 1
      /\ run.pageLoadErrorCounter = 0

\* C4 amended: exactly 2 resets are made for the two retries; the run as a
\* whole makes one more at its end and a further one after the success when
\* newBrowserPerUrls divides pageGenerationCounter = 3 (3 or 4 cleanupBrowser
\* resets); the artifact is appended once and pageLoadErrorCounter ends at 0.
C4_ResetsAndAppend ==
    C4_Scenario =>
      /\ hist.retryResets = 2
      /\ world.cleanups = 3 + (IF options.newBrowserPerUrls > 0
                                  /\ 3 % options.newBrowserPerUrls = 0 THEN 1 ELSE 0)
      /\ Len(pdfDoc) = 1
      /\ run.pageLoadErrorCounter = 0

\* C4 witness: the scenario with newBrowserPerUrls = 3, which ends after 4 resets
C4_Witness == C4_Scenario /\ options.newBrowserPerUrls = 3 /\ world.cleanups = 4

\* C5: whenever an attempt that follows a failed attempt of the same URL is
\* in progress, it runs on an open tab of a browser that is not the failed
\* attempt's, the failed attempt's browser is closed, and the profile
\* directory has been deleted and recreated since.
C5_FreshSessionForRetry ==
    (run.pos = "attempt" /\ hist.attempts[run.pageURLIdx + 1] >= 2) =>
      /\ page.browserPage.defined
      /\ page.browserPage \in world.openTabs
      /\ page.browserPage.browser \in world.openBrowsers
      /\ page.browserPage.browser # hist.lastFailed.browser
      /\ hist.lastFailed.browser \notin world.openBrowsers
      /\ world.profileGen > hist.lastFailedProfile

C7_RoundRobin ==
    (px.start = 0 /\ px.pool.defined /\ Len(px.pool.list) > 0) =>
      \A j \in 1..Len(px.results) :
        /\ px.results[j].ret.some
        /\ px.results[j].ret.proxy = px.pool.list[((j - 1) % Len(px.pool.list)) + 1]

\* C7 witness: N + 1 calls over a pool of the longest length, the last returning pool[0]
C7_Witness ==
    /\ px.start = 0 /\ px.pool.defined
    /\ Len(px.pool.list) = MaxProxies
    /\ Len(px.results) = MaxProxies + 1
    /\ px.results[MaxProxies + 1].ret.proxy = px.pool.list[1]

C9_ErrorTextAborts ==
    page.errorTextFound =>
      /\ page.pos = "returned"
      /\ page.pageLoadError
      /\ ~page.pdfCalled

\* C9 witness: a pattern found under the largest leniency
C9_Witness ==
    /\ page.errorTextFound
    /\ options.leniency = MaxLeniency
    /\ page.pageLoadError

\* C10: when goto() settled first with a response whose status is in
\* options.pageHttpError, pageGotoError is true and the navigation counts as
\* failed, also when no resource error was counted.
C10_PageStatusFails ==
    (page.settledBy = "goto" /\ page.gotoValue.kind = "response"
       /\ page.gotoValue.status \in options.pageHttpError) =>
      page.pageGotoError /\ "goto" \in page.signalled

\* C10 witness: an error status with a counter of 0 ends the attempt at the gate
C10_Witness ==
    /\ page.settledBy = "goto"
    /\ page.gotoValue = [kind |-> "response", status |-> 404]
    /\ page.counterAtSettle = 0
    /\ AbortedAt("goto")

\* an exception was raised by a step of the attempt: goto() rejected or the
\* status() of its value threw, or a later step threw into the catch block
NavigationRaised == page.gotoValue.kind \in Rejections \cup {"opaque"}

StepRaised == page.abortReason \in {"exception", "errorText"}

C11_WitnessPassedOver ==
    /\ page.pos = "returned"
    /\ page.gotoValue.kind = "rejected"
    /\ options.leniency = 12
    /\ ~page.pageLoadError /\ page.pdfCalled

\* C19 as stated: a timeout that expired at a step ended the attempt there
\* only if options.leniency is at most the step's threshold (at most 11 for
\* the PDF capture, whatever its threshold is taken to be).
C19_AsStated ==
    (page.timedOut # "none" /\ page.abortStep = page.timedOut) =>
      options.leniency <= (IF page.timedOut = "pdf" THEN 11
                           ELSE C2_Threshold(page.timedOut))

\* C19 amended: expiry of the navigation timeout is the navigation's failure
\* signal and ends the attempt iff leniency <= 11; expiry of either idle-wait
\* timeout or of the PDF timeout ends the attempt at every leniency.
C19_Timeouts ==
    /\ page.gotoValue.kind = "timeout" =>
         /\ "goto" \in page.signalled
         /\ AbortedAt("goto") <=> options.leniency <= 11
    /\ page.timedOut \in {"idleAfterScroll", "idleAfterDom", "pdf"} =>
         /\ page.pos = "returned" /\ page.pageLoadError
         /\ page.abortStep = page.timedOut /\ page.abortReason = "exception"

\* C19 witness: the idle wait after the scroll timed out under leniency 12
\* and the attempt failed
C19_Witness ==
    /\ page.timedOut = "idleAfterScroll"
    /\ options.leniency = 12
    /\ page.pos = "returned" /\ page.pageLoadError

\* C19 second witness: goto() timed out under leniency 12 and the pipeline
\* went on to save the PDF
C19_WitnessNavigation ==
    /\ page.gotoValue.kind = "timeout"
    /\ options.leniency = 12
    /\ page.pos = "returned" /\ ~page.pageLoadError

\* C20: once the navigation step of an attempt has ended, the interval it
\* started is cleared, and no interval of a returned attempt is running.
C20_TimerCleared ==
    /\ page.pos \notin {"idle", "goto"} => ~page.intervalActive
    /\ page.pos = "returned" => ~page.intervalActive

\* C18 as stated: with newBrowserPerUrls = N > 0, a success was followed by
\* a full reset iff it was the N-th consecutive success of its session.
C18_AsStated ==
    (options.newBrowserPerUrls > 0 /\ hist.lastRecycle # "none") =>
      (hist.lastRecycle = "reset" <=>
         hist.successesAtRecycle = options.newBrowserPerUrls)

\* C18 amended: a success is followed by a full reset (cleanupBrowser and a
\* fresh launch) iff N > 0 divides the number of generatePagePdf calls the
\* run has made so far, failed ones included, and the reset is not skipped
\* by keepBrowser on the last URL; otherwise the tab is recycled; no session
\* has more than N consecutive successful loads behind it.
C18_ResetEveryNLoads ==
    /\ hist.lastRecycle = "reset" <=>
         /\ hist.lastRecycle # "none"
         /\ options.newBrowserPerUrls > 0
         /\ hist.loadsAtRecycle % options.newBrowserPerUrls = 0
         /\ hist.lastRecycle # "kept"
    /\ hist.lastRecycle = "kept" => options.keepBrowser
    /\ options.newBrowserPerUrls > 0 =>
         hist.sessionSuccesses <= options.newBrowserPerUrls

\* C18 witness: N = 2, two successes in a row on the first session, and the
\* second was followed by a full reset
C18_Witness ==
    /\ options.newBrowserPerUrls = 2
    /\ hist.lastRecycle = "reset"
    /\ hist.loadsAtRecycle = 2 /\ hist.successesAtRecycle = 2
    /\ hist.attempts = <<1, 1>>

\* C18 second witness: N = 2, a failed attempt and then one success, which
\* was followed by a full reset after a single success of its session
C18_WitnessEarly ==
    /\ options.newBrowserPerUrls = 2
    /\ hist.lastRecycle = "reset"
    /\ hist.attempts[1] = 2 /\ hist.loadsAtRecycle = 2
    /\ hist.successesAtRecycle = 1


\* the attempt that has just failed was the last one its URL may have
RetriesExhausted ==
    /\ run.pos = "attempt"
    /\ page.pos = "returned"
    /\ page.pageLoadError
    /\ ~MayRetry

\* no URL after the one in work has been attempted
NoLaterAttempt ==
    \A i \in 1..Len(pageURLs) : i > run.pageURLIdx + 1 => hist.attempts[i] = 0

\* C12: when a URL's retries are exhausted, generatePdfs rejects, no later
\* URL of the list is attempted, and the run of the command line writes no
\* combined output file and exits with a non-zero code
C12_ExhaustionAbortsRun ==
    /\ [][(RetriesExhausted /\ run' # run) => run'.pos = "rejected"]_vars
    /\ [](run.pos = "rejected" =>
            /\ NoLaterAttempt
            /\ main.outputFile.writes = 0
            /\ main.pos = "exited" => main.exitCode \in {3, 5})

\* the second of three URLs ran out of retries after the ToC page and the
\* first URL had been appended; the run ended with code 5 and no file
C12_Witness ==
    /\ main.pos = "exited"
    /\ main.rejected = {"content"}
    /\ Len(pageURLs) = 3
    /\ run.pos = "rejected"
    /\ run.pageURLIdx = 1
    /\ Len(pdfDoc) = 2
    /\ main.exitCode = 5
    /\ main.outputFile.writes = 0

\* the coverage sum of a well-formed line
CoverageSum(line) == line[1].val + line[2].val + line[3].val + line[4].val

\* the pages of doc, from page #k on, whose line is not below the threshold
RECURSIVE PagesKept(_, _, _)
PagesKept(doc, lines, k) ==
    IF k > Len(doc) THEN <<>>
    ELSE (IF CoverageSum(lines[k]) < options.pdfCleanupThreshold THEN <<>> ELSE <<doc[k]>>)
         \o PagesKept(doc, lines, k + 1)

\* Ghostscript ran and printed one well-formed line per page
CleanupRanWellFormed ==
    /\ main.pos = "exited"
    /\ main.spawned
    /\ main.spawnResult.status = 0
    /\ main.spawnResult.error = "none"
    /\ main.spawnResult.stdout \in WellFormedOutputs(Len(main.saved))

\* C13: given one ink-coverage line per page, the cleanup pass removes
\* exactly the pages whose coverage sum is below pdfCleanupThreshold and
\* keeps the other pages in their order, whatever was removed before them
C13_RemovesExactlyBlankPages ==
    CleanupRanWellFormed =>
        /\ pdfDoc = PagesKept(main.saved, main.spawnResult.stdout, 1)
        /\ main.removedPageCount = Len(main.saved) - Len(pdfDoc)
        /\ ~main.removePageThrew
        /\ main.outputFile.pages = pdfDoc
        /\ main.outputFile.writes = (IF main.removedPageCount > 0 THEN 2 ELSE 1)

\* sums 0.02, 0.001, 0.05 and threshold 0.008: pages 0 and 2 are left
C13_Witness ==
    /\ CleanupRanWellFormed
    /\ options.pdfCleanupThreshold = 8
    /\ Len(main.saved) = 3
    /\ main.spawnResult.stdout =
         <<InkLine(5, 5, 5, 5), BlankLine, InkLine(10, 10, 10, 20), <<>> >>
    /\ pdfDoc = <<main.saved[1], main.saved[3]>>
    /\ main.outputFile = [writes |-> 2, pages |-> pdfDoc]

\* two pages in a row are removed, and a page at the threshold is kept
C13_WitnessShift ==
    /\ CleanupRanWellFormed
    /\ Len(main.saved) = 4
    /\ main.spawnResult.stdout =
         <<BlankLine, BlankLine, InkLine(2, 2, 2, 2), BlankLine, <<>> >>
    /\ pdfDoc = <<main.saved[3]>>

\* Ghostscript printed one well-formed line per page, each below the threshold
AllPagesBlank ==
    /\ CleanupRanWellFormed
    /\ \A k \in 1..Len(main.saved) :
         CoverageSum(main.spawnResult.stdout[k]) < options.pdfCleanupThreshold

\* C14: if every page of the combined document is below the threshold, the
\* cleanup pass leaves the document empty and the run ends in the zero-pages
\* fatal outcome: a non-zero exit code and no output file left written
C14_ZeroPagesIsFatal ==
    AllPagesBlank =>
        /\ pdfDoc = <<>>
        /\ main.exitCode # 0
        /\ main.outputFile.writes = 0

\* the pages of the artifact rendered for url
PagesOf(url) == [n \in 1..PdfPages(url) |-> [url |-> url, version |-> "new", no |-> n]]

\* the artifacts of the URLs of a list, one after the other
RECURSIVE PagesOfAll(_)
PagesOfAll(urls) ==
    IF urls = <<>> THEN <<>> ELSE PagesOf(Head(urls)) \o PagesOfAll(Tail(urls))

\* a run on a ToC page ended without a rejection and saved the combined
\* document, every page of the content run rendered at its first attempt
TocRunSaved ==
    /\ main.pos = "exited"
    /\ options.toc
    /\ main.rejected = {}
    /\ main.outputFile.writes > 0
    /\ \A i \in 1..Len(hist.attempts) : hist.attempts[i] = 1

\* C15 as the specification states it: the combined document of a run on a
\* ToC page with 3 links is the three children's pages in link order
C15_AsStated ==
    (TocRunSaved /\ Len(world.tocAnchors) = 3) =>
        main.saved = PagesOfAll(world.tocAnchors)

\* the three links are all within options.urlDomainSuffix and --toc-limit
\* does not cut them
ThreeLinkRun ==
    /\ TocRunSaved
    /\ Len(FilterLinks(world.tocAnchors)) = 3
    /\ options.tocLimit = 0 \/ options.tocLimit >= 3

\* C15: the combined document of a 3-link ToC run is, when it is saved, the
\* pages of the ToC page followed by the three children's pages in link order
C15_TocThenChildren ==
    ThreeLinkRun =>
        /\ main.pageUrls = Array(world.tocAnchors)
        /\ main.saved = PagesOf(main.url) \o PagesOfAll(world.tocAnchors)

\* one page of the ToC, then 1 + 2 + 1 pages of the children
C15_Witness ==
    /\ ThreeLinkRun
    /\ world.tocAnchors = <<"u1", "u2", "u3">>
    /\ Len(main.saved) = 5
    /\ main.saved[1].url = "toc"
    /\ main.saved[3].url = "u2"

\* a line that has text but too few fields or a field that is not a number
Malformed(line) ==
    /\ Len(line) > 0
    /\ Len(line) < 4 \/ \E k \in 1..4 : IsNaN(line[k])

\* Ghostscript was missing, failed, or printed a malformed line
CleanupFailed ==
    /\ main.pos = "exited"
    /\ main.spawned
    /\ \/ main.spawnResult.status # 0
       \/ main.spawnResult.error # "none"
       \/ \E k \in 1..Len(main.spawnResult.stdout) : Malformed(main.spawnResult.stdout[k])

\* C16: if the ink-coverage tool is missing, exits non-zero or prints
\* malformed output, the document is kept uncleaned: no page is removed and
\* the output file saved before the cleanup is not rewritten
C16_KeptUncleaned ==
    CleanupFailed =>
        /\ pdfDoc = main.saved
        /\ main.removedPageCount = 0
        /\ main.outputFile = [writes |-> 1, pages |-> main.saved]

\* line 228-389: the exit codes of each class of failure
ExitCodes ==
    [ configuration |-> {1, 2}, toc |-> {3, 4}, content |-> {5, 6},
      cleanupTool |-> 7..14, zeroPages |-> {15} ]

\* the classes of failure that occurred in a run that has ended
Failures ==
    (IF options.output = "" THEN {"configuration"} ELSE {})
    \cup (IF "toc" \in main.rejected THEN {"toc"} ELSE {})
    \cup (IF "content" \in main.rejected THEN {"content"} ELSE {})
    \cup (IF CleanupFailed \/ (main.spawned /\ main.spawnResult.stdout = <<>>)
          THEN {"cleanupTool"} ELSE {})
    \cup (IF options.output # "" /\ main.rejected = {} /\ pdfDoc = <<>>
          THEN {"zeroPages"} ELSE {})

\* C17: the exit code identifies the class of failure: the classes have
\* pairwise disjoint non-zero codes, the code is one of a class that
\* occurred whenever a failure occurred, and it is 0 only when none did
C17_ExitCodeIdentifiesFailure ==
    /\ \A c, d \in DOMAIN ExitCodes :
         0 \notin ExitCodes[c] /\ (c # d => ExitCodes[c] \cap ExitCodes[d] = {})
    /\ main.pos = "exited" =>
         /\ main.exitCode = 0 <=> Failures = {}
         /\ main.exitCode # 0 => \E c \in Failures : main.exitCode \in ExitCodes[c]

\* a step wrapped in catchResourceLoadErrors has just been left
WrappedStepLeft ==
    /\ page.pos \in GatedSteps \ {"goto"}
    /\ page'.pos # page.pos

\* C21: catchResourceLoadErrors reports the wrapped step as failed if and
\* only if the counter grew by more than options.resourceHttpErrorAllowed
\* while the step ran, so that errors counted before the step never fail
\* it; what the step throws is thrown again
C21_DeltaDecides ==
    [][WrappedStepLeft =>
         \/ page'.abortReason = "exception"
         \/ page.pos \in page'.signalled <=>
              GreaterThan(resourceLoadErrorCounter' - resourceLoadErrorCounter,
                          options.resourceHttpErrorAllowed)]_vars

\* C22: every attempt starts with resourceLoadErrorCounter = 0, and within
\* the attempt the counter only grows by the responses counted, so nothing
\* counted during an earlier attempt reaches the watcher or a gate
C22_CounterResetPerAttempt ==
    [][/\ (page.pos = "idle" /\ page'.pos # "idle") => resourceLoadErrorCounter' = 0
       /\ (page.pos # "idle" /\ page'.pos # "idle") =>
            resourceLoadErrorCounter' \in
                {resourceLoadErrorCounter, resourceLoadErrorCounter + 1}]_vars

\* the second attempt of a URL is at its navigation with a counter of 0 after
\* a first attempt that failed with counted resource errors
C22_Witness ==
    /\ run.pos = "attempt"
    /\ page.pos = "goto"
    /\ resourceLoadErrorCounter = 0
    /\ hist.attempts[run.pageURLIdx + 1] = 2
    /\ ~hist.otherFailure

\* C24: the listener increments the counter for a response if and only if
\* its protocol is http or https, its status is in options.resourceHttpError,
\* its hostname ends with one of options.resourceHttpErrorDomainSuffix and
\* its URL matches none of options.resourceHttpErrorUrlException; otherwise
\* the counter is unchanged
C24_MonitorCounts ==
    [][LET response == hist'.lastResponse
           counted  ==
               /\ response.protocol = "http:" \/ response.protocol = "https:"
               /\ response.status \in options.resourceHttpError
               /\ \E suffix \in options.resourceHttpErrorDomainSuffix :
                    \E n \in 0..Len(response.hostname) :
                      [k \in 1..Len(response.hostname) - n |-> response.hostname[n + k]] = suffix
               /\ response.path \notin options.resourceHttpErrorUrlException
       IN  resourceLoadErrorCounter' =
               resourceLoadErrorCounter + (IF counted THEN 1 ELSE 0)]_vars

\* a 403 of a watched host was counted
C24_Witness ==
    /\ hist.lastResponse =
         [protocol |-> "https:", status |-> 403,
          hostname |-> <<"www", ".", "volvocars", ".", "com">>, path |-> "page"]
    /\ resourceLoadErrorCounter = 1

\* a 403 of a watched host whose URL is on the exception list was not counted
C24_WitnessException ==
    /\ hist.lastResponse.status = 403
    /\ hist.lastResponse.hostname = <<"www", ".", "volvocars", ".", "com">>
    /\ hist.lastResponse.path = "predictions"
    /\ options.resourceHttpErrorUrlException = {"predictions"}
    /\ resourceLoadErrorCounter = 0

\* a failed attempt is followed by its retry
RetryTaken ==
    /\ FailedAttemptReturned
    /\ run'.pos = "loop"

\* the failures counted for the task have used up the proxy pool, or there
\* is no pool
PoolUsedUp ==
    \/ ~options.proxy.defined
    \/ Len(options.proxy.list) = 0
    \/ run.pageLoadErrorCounter + 1 >= Len(options.proxy.list)

\* C29 as the specification states it: when the pool is used up or there
\* is none, the retry sleeps for options.waitTime and sets
\* pageLoadErrorCounter to 0; otherwise it does neither
C29_AsStated ==
    [][RetryTaken =>
         IF PoolUsedUp
         THEN /\ hist'.sleptSeconds = hist.sleptSeconds + options.waitTime
              /\ run'.pageLoadErrorCounter = 0
         ELSE /\ hist'.sleptSeconds = hist.sleptSeconds
              /\ run'.pageLoadErrorCounter = run.pageLoadErrorCounter + 1]_vars

\* C29: when the pool is used up or there is none, and options.waitTime is
\* greater than 0, the retry sleeps for options.waitTime and sets
\* pageLoadErrorCounter to 0; otherwise it does neither
C29_WaitAndReset ==
    [][RetryTaken =>
         IF PoolUsedUp /\ options.waitTime > 0
         THEN /\ hist'.sleptSeconds = hist.sleptSeconds + options.waitTime
              /\ run'.pageLoadErrorCounter = 0
         ELSE /\ hist'.sleptSeconds = hist.sleptSeconds
              /\ run'.pageLoadErrorCounter = run.pageLoadErrorCounter + 1]_vars

\* with two proxies and a wait time of 2 s, the first failure was not waited
\* for, the second was, and the third was not: one sleep after three retries
C29_Witness ==
    /\ options.proxy = Array(<<"proxyA", "proxyB">>)
    /\ options.waitTime = 2
    /\ hist.attempts[1] = 4
    /\ hist.sleptSeconds = 2
    /\ run.pageLoadErrorCounter = 1

\* with a wait time of 0 the counter is past the pool size and was not reset
C29_WitnessNoWait ==
    /\ options.proxy = Array(<<"proxyA">>)
    /\ options.waitTime = 0
    /\ run.pageLoadErrorCounter = 2
    /\ hist.sleptSeconds = 0

C30_WitnessGiven ==
    /\ run.pos = "done"
    /\ world.launched >= 2
    /\ options.userAgent.text = "curl/8"

(***************************************************************************)
(* C25: failures inside cleanupBrowser.                                    *)
(***************************************************************************)
\* C25: whatever sub-steps fail, a cleanupBrowser call that is not skipped
\* makes all four sub-steps, the failing ones included, and throws nothing;
\* and when the run goes on after it, the tab of the next attempt is there
C25_TeardownIsSwallowed ==
    world.teardown.called =>
        /\ world.teardown.ran = Range(TeardownSteps)
        /\ world.teardown.failed = world.faults \cap Range(TeardownSteps)
        /\ ~world.teardown.threw
        /\ (run.pos = "loop" /\ ~options.keepBrowser) => run.browserPage \in world.openTabs

\* the retry attempt is in flight after a teardown whose four sub-steps failed
C25_Witness ==
    /\ world.teardown.failed = Range(TeardownSteps)
    /\ run.pos = "attempt"
    /\ run.pdfGenCounter = 2
    /\ page.pos = "goto"

\* the next task is in flight after a teardown whose tab close failed
C25_WitnessNextTask ==
    /\ world.teardown.failed = {"closePage"}
    /\ run.pos = "attempt"
    /\ run.pageURLIdx = 1
    /\ page.pos = "goto"

(***************************************************************************)
(* C23: responses of tabs other than the tab of the attempt in flight.     *)
(***************************************************************************)
\* C23: a step in which the listener of another tab than the attempt's tab
\* handles a response leaves the counter the attempt reads unchanged
C23_StaleResponsesNotCounted ==
    [][hist'.staleCounted > hist.staleCounted =>
         resourceLoadErrorCounter' = resourceLoadErrorCounter]_vars

C27_WitnessTab ==
    /\ world.faults \cap {"closePage", "closeBrowser"} = {}
    /\ world.launched = 1
    /\ world.tabsCreated = 2
    /\ Cardinality(world.openTabs) = 1
    /\ run.pos = "attempt"

(***************************************************************************)
(* C28: the teardown at the end of a run.                                  *)
(***************************************************************************)
\* generatePdfs has ended, by its return value or by a rejection
RunEnded == run.pos \in {"done", "rejected"}

\* C28: when the run has ended, the last cleanupBrowser call was made for
\* the browser of the session the run held at that moment, and it was the
\* only call made for that browser
C28_TornDownOnceAtEnd ==
    (RunEnded /\ run.browserPage.defined) =>
        /\ world.teardown.called
        /\ world.teardown.browser = run.browserPage.browser
        /\ ~world.teardown.repeated

C31_ReturnsUsableTab ==
    hist.session.called =>
        /\ ~hist.session.threw
        /\ run.browserPage \in world.openTabs
        /\ IF hist.session.startNew \/ ~hist.session.currentPage.defined
           THEN /\ world.launched = hist.session.launchedBefore + 1
                /\ run.browserPage.browser = world.launched
           ELSE /\ world.launched = hist.session.launchedBefore
                /\ run.browserPage.browser = hist.session.currentPage.browser
                /\ run.browserPage # hist.session.currentPage
                /\ hist.session.currentPage \notin world.openTabs

(***************************************************************************)
(* C37: the tab an attempt is given.                                       *)
(***************************************************************************)
\* C37: every generatePagePdf call of a run is made with a page object that
\* is an open tab of an open browser
C37_AttemptOnLiveTab ==
    [][(run.pos = "loop" /\ run'.pos = "attempt") =>
         /\ page'.browserPage.defined
         /\ page'.browserPage \in world'.openTabs
         /\ page'.browserPage.browser \in world'.openBrowsers]_vars

(***************************************************************************)
(* C32: the combined document during generatePdfs.                         *)
(***************************************************************************)
\* C32: a step that moves on to the next URL of the list leaves the document
\* as it was with the pages of the finished URL's artifact added at the end,
\* in page order; every other step, a failed attempt and the end of the run
\* included, leaves the document as it was
C32_DocumentGrowsInUrlOrder ==
    [][IF run'.pageURLIdx = run.pageURLIdx + 1
       THEN /\ Len(pdfDoc') = Len(pdfDoc) + PdfPages(PageUrl)
            /\ SubSeq(pdfDoc', 1, Len(pdfDoc)) = pdfDoc
            /\ \A n \in 1..PdfPages(PageUrl) :
                 /\ pdfDoc'[Len(pdfDoc) + n].url = PageUrl
                 /\ pdfDoc'[Len(pdfDoc) + n].no = n
       ELSE pdfDoc' = pdfDoc]_vars

\* a run of two URLs has ended: the first URL failed once and was rendered
\* at the second attempt, and the pages of both are there in list order
C32_Witness ==
    /\ run.pos = "done"
    /\ pageURLs = <<"u1", "u2">>
    /\ hist.attempts[1] = 2
    /\ Len(pdfDoc) = PdfPages("u1") + PdfPages("u2")
    /\ pdfDoc[1].url = "u1"
    /\ pdfDoc[Len(pdfDoc)].url = "u2"

(***************************************************************************)
(* C33: the order of the steps of one attempt.                             *)
(***************************************************************************)
\* the steps in the order the property names them, bringToFront() leaving
\* no position of its own
ClaimedOrder ==
    << "goto", "scroll", "idleAfterScroll", "tocLinks", "tocModify", "relatedRemoval",
       "hyperlinks", "onetrust", "elementRemoval", "iframeRemoval", "idleAfterDom",
       "errorText", "pdf" >>

\* the place of a step in that order, 0 for a step the property does not name
Rank(step) ==
    IF \E i \in 1..Len(ClaimedOrder) : ClaimedOrder[i] = step
    THEN CHOOSE i \in 1..Len(ClaimedOrder) : ClaimedOrder[i] = step
    ELSE 0

\* the steps the property names for this kind of page
Named(step) ==
    /\ Rank(step) > 0
    /\ step \in {"tocLinks", "tocModify"} => isToCPage
    /\ step = "relatedRemoval" => ~isToCPage

\* the order of the steps alone: a step is begun only when the step before
\* it has returned without aborting, and no named step is passed over other
\* than by the options that switch it off
StepsBegunInOrder ==
    [][(page'.pos # page.pos /\ Rank(page'.pos) > 0 /\ page.pos # "idle") =>
         /\ Named(page'.pos)
         /\ page'.abortStep = "none"
         /\ Rank(page.pos) < Rank(page'.pos)
         /\ \A i \in 2 .. (Rank(page'.pos) - 1) :
              \/ i <= Rank(page.pos)
              \/ ~Named(ClaimedOrder[i])
              \/ ~Applies(ClaimedOrder[i])]_vars

\* C33: the steps are begun in the named order, and when page.pdf() is
\* called every earlier step, bringToFront() included, has completed
C33_StepsInOrder ==
    [][/\ (page'.pos # page.pos /\ Rank(page'.pos) > 0 /\ page.pos # "idle") =>
            /\ Named(page'.pos)
            /\ page'.abortStep = "none"
            /\ Rank(page.pos) < Rank(page'.pos)
       /\ (page'.pdfCalled /\ ~page.pdfCalled) =>
            /\ page.pos = "pdf"
            /\ page.broughtToFront]_vars

\* the proxy pool of the run, << >> when none is configured
Pool == IF options.proxy.defined THEN options.proxy.list ELSE <<>>

\* what the j-th launch of a rotation over the pool passes to the browser:
\* nothing for an empty entry
Rotated(j) ==
    LET entry == Pool[((j - 1) % Len(Pool)) + 1]
    IN  IF entry = "" THEN Undefined ELSE entry

\* C34: with a pool of N >= 1 proxies the j-th launch of a generatePdfs call
\* uses pool[(j-1) mod N], and a step that launches no browser leaves the
\* proxy cursor where it was.
C34_LaunchesRotate ==
    /\ [](Len(Pool) >= 1 =>
            \A j \in 1..Len(world.launchProxies) : world.launchProxies[j] = Rotated(j))
    /\ [][Len(world'.launchProxies) = Len(world.launchProxies) =>
            run'.proxyIndex = run.proxyIndex]_vars

\* C34 for pools without an empty entry
C34_NonEmptyEntriesRotate ==
    /\ []((Len(Pool) >= 1 /\ \A i \in 1..Len(Pool) : Pool[i] # "") =>
            \A j \in 1..Len(world.launchProxies) : world.launchProxies[j] = Rotated(j))
    /\ [][Len(world'.launchProxies) = Len(world.launchProxies) =>
            run'.proxyIndex = run.proxyIndex]_vars

\* the rotation came round: a third launch over two proxies used the first again
C34_WitnessRound ==
    /\ Pool = <<"proxyA", "proxyB">>
    /\ Len(world.launchProxies) = 3
    /\ world.launchProxies[3] = "proxyA"

\* C38: with newBrowserPerUrls = N > 0 and keepBrowser unset, no browser
\* instance serves more than N attempts of a generatePdfs call, failed and
\* successful attempts alike.
C38_BrowserServesAtMostN ==
    (options.newBrowserPerUrls > 0 /\ ~options.keepBrowser) =>
        hist.served.count <= options.newBrowserPerUrls

\* C38 witness: a browser has served N = 2 attempts, the second one after a
\* first that succeeded, and was replaced for the third URL
C38_Witness ==
    /\ options.newBrowserPerUrls = 2 /\ ~options.keepBrowser
    /\ Len(pageURLs) = 3 /\ run.pageURLIdx = 2
    /\ hist.attempts = <<1, 1, 1>>
    /\ hist.served = [browser |-> 2, count |-> 1]
    /\ world.launched = 2

\* C38 witness: a failed attempt counts: with N = 2, the browser launched after
\* a failure of the first attempt serves one attempt only
C38_WitnessFailedCounts ==
    /\ options.newBrowserPerUrls = 2 /\ ~options.keepBrowser
    /\ hist.attempts[1] = 2 /\ Len(pdfDoc) = 1
    /\ hist.attempts[2] = 1
    /\ hist.served = [browser |-> 3, count |-> 1]

\* the call waits for an event that is not coming
ScrollStuck ==
    /\ page.scroll.called /\ ~page.scroll.resolved
    /\ ~page.scroll.inFlight /\ ~page.scroll.eventPending

\* C35: scrollToPageBottom issues at most maxScrolls scroll commands, resolves
\* when a scroll has settled with a remaining distance <= 1 or the maximum has
\* been reached, and not before, and every call terminates.
C35_ScrollTerminates ==
    /\ [](page.scroll.commands <= page.scroll.maxScrolls)
    /\ [][(page.scroll.eventPending /\ page'.scroll # page.scroll) =>
            (page'.scroll.resolved <=>
               (Remaining(page.scroll) <= 1
                  \/ page.scroll.scrollCounter >= page.scroll.maxScrolls))]_vars
    /\ [][(page'.scroll.resolved /\ ~page.scroll.resolved) => page.scroll.eventPending]_vars
    /\ (page.scroll.called ~> page.scroll.resolved)

\* C35 without its last part: the bound on the commands and the moment of the
\* resolution; a call ends unless it is left without a scrollend event
C35_BoundedAndResolvesWhenNotified ==
    /\ [](page.scroll.commands <= page.scroll.maxScrolls)
    /\ [][(page.scroll.eventPending /\ page'.scroll # page.scroll) =>
            (page'.scroll.resolved <=>
               (Remaining(page.scroll) <= 1
                  \/ page.scroll.scrollCounter >= page.scroll.maxScrolls))]_vars
    /\ [][(page'.scroll.resolved /\ ~page.scroll.resolved) => page.scroll.eventPending]_vars
    /\ (page.scroll.called ~> (page.scroll.resolved \/ ScrollStuck))

\* the maximum was reached with the bottom still out of sight
C35_WitnessMax ==
    /\ page.scroll.resolved
    /\ page.scroll.commands = MaxScrolls
    /\ page.scroll.remainingAtResolve > 1

\* a page that cannot scroll got the first command and no event
C35_WitnessStuck ==
    /\ ScrollStuck
    /\ page.scroll.scrollHeight = page.scroll.clientHeight

\* C39: a run that ends with exit code 0 has written the combined document to
\* the output path, with at least one page in it; also when the ToC page was
\* rendered and had no child links.
C39_ExitZeroHasOutput ==
    (main.pos = "exited" /\ main.exitCode = 0) =>
        /\ main.outputFile.writes > 0
        /\ Len(main.outputFile.pages) >= 1

\* C39 for the runs that were given at least one content page to render and
\* did not go through the removal of empty pages
C39_ExitZeroWithContentHasOutput ==
    (/\ main.pos = "exited" /\ main.exitCode = 0
     /\ main.pageUrls.defined /\ Len(main.pageUrls.list) > 0
     /\ ~main.spawned) =>
        /\ main.outputFile.writes > 0
        /\ Len(main.outputFile.pages) >= 1

\* the ToC page was rendered, no link was found in it and the run has ended
C39_WitnessNoLinks ==
    /\ main.pos = "exited" /\ main.exitCode = 0
    /\ options.toc /\ main.rejected = {}
    /\ main.pageUrls = Array(<<>>)
    /\ Len(pdfDoc) >= 1
    /\ main.outputFile.writes = 0

\* C36: however the run ends, the temporary directories main created are
\* deleted: none is left once the process has exited.
C36_TemporaryDirectoriesDeleted ==
    main.pos = "exited" => main.temporary = {}

\* C36 for every way to end but the exit for an empty output path
C36_DeletedUnlessOutputPathEmpty ==
    (main.pos = "exited" /\ main.exitCode # 2) => main.temporary = {}

\* the process exited for an empty output path and left both directories
C36_WitnessLeft ==
    /\ main.pos = "exited" /\ main.exitCode = 2
    /\ main.temporary = {"userDirectory", "pdfDirectory"}

\* SIGINT arrived during a render attempt and the directories were deleted
C36_WitnessSigint ==
    /\ main.pos = "exited" /\ main.exitCode = 97
    /\ run.pos = "attempt" /\ main.temporary = {}

====
